---- MODULE Spec2Model ----
(***************************************************************************)
(* A model of the concurrency primitives of rust-atomics:                  *)
(*   - section_5/arc_strong_and_weak.rs : Arc / Weak with two counters     *)
(*   - section_4/spin_lock.rs           : SpinLock and its Guard           *)
(*   - section_4/channel_one_shot.rs    : one-shot Channel with in_use     *)
(*   - section_5/arc_basic.rs           : Arc with one counter             *)
(*   - section_4/channel_avoid_borrowing.rs : Channel reused through split  *)
(* Every step of an operation is one access to shared memory, so that the  *)
(* interleavings of the threads are the interleavings of those accesses.   *)
(***************************************************************************)
EXTENDS Integers, Naturals, Sequences, FiniteSets, TLC

\* ------------------------------------------------------------------ bounds
NThreads == 2
MaxHandles == 3
UsizeBits == 3

Threads == 1..NThreads
Handles == 1..MaxHandles

\* usize, at the width of the model
UsizeMod == 2 ^ UsizeBits
UsizeMax == UsizeMod - 1
HalfMax == UsizeMax \div 2

\* locker threads of the SpinLock, and increments each of them makes
NLockers == 3
MIncr == 2
Lockers == 1..NLockers

\* threads using the Channel, and the messages they may send
NChanThreads == 3
NMsgs == 2
ChanThreads == 1..NChanThreads
Msgs == 1..NMsgs

\* threads using the basic Arc, and the width of its counter
NBasicThreads == 3
BasicBits == 2
BasicThreads == 1..NBasicThreads
\* usize at that width
BasicMod == 2 ^ BasicBits
BasicMax == BasicMod - 1
BasicHalfMax == BasicMax \div 2

\* spin_lock_main: the two spawned threads, and the most pushes one of them
\* makes under its Guard (the source has 1 push and 2 pushes)
MaxPush == 2
Workers == 1..2

\* threads that each drop one handle of the same allocation
NDroppers == 3
Droppers == 1..NDroppers

\* threads calling get_pointer_data_lazy_init
NPtrThreads == 3
PtrThreads == 1..NPtrThreads

\* how many times seq_cst_ordering is called
MaxSeqCalls == 3

\* threads calling lazy_init
NLazyThreads == 3
LazyThreads == 1..NLazyThreads

\* threads using the reusable Channel, and how many times it is split
NSplitThreads == 2
MaxGen == 2
SplitThreads == 1..NSplitThreads

VARIABLES
  \* ---- ArcData, Arc, Weak (section_5/arc_strong_and_weak.rs)
  data_ref_count,   \* ArcData.data_ref_count
  alloc_ref_count,  \* ArcData.alloc_ref_count
  NUM_DROPS,        \* how many times the payload's destructor ran
  blockFrees,       \* how many times Box::from_raw freed the ArcData
  uaf,              \* an operation touched the ArcData after it was freed
  aborted,          \* std::process::abort() was called
  hkind,            \* the handles: "none", "arc" or "weak"
  pc,               \* each thread's position
  th_h,             \* the handle the thread's call borrows (0: none)
  th_n,             \* the call's local n / returned count
  th_uniq,          \* get_mut's is_unique
  ret,              \* what the thread's last call returned
  situ,             \* how the call stood among the live handles (see UpgradeLoad, GetMutCas)
  \* ---- SpinLock, Guard (section_4/spin_lock.rs)
  locked,           \* SpinLock.locked
  value,            \* SpinLock.value (a counter)
  spc,              \* each locker's position
  stmp,             \* the value a locker read through its Guard
  sdone,            \* increments a locker has completed
  left,             \* the value as it was when the last Guard was dropped
  \* ---- Channel (section_4/channel_one_shot.rs)
  message,          \* Channel.message: 0 is uninitialised storage
  in_use,           \* Channel.in_use
  ready,            \* Channel.ready
  cpc,              \* each channel thread's position
  cmsg,             \* the message argument of the thread's send
  cres,             \* how the thread's last call ended
  cret,             \* the message the thread's last receive returned
  written,          \* the messages written to the storage, in order
  sent,             \* the messages whose send completed, in order
  chanDropped,      \* the Channel has been dropped
  msgDestroyed,     \* how many times a stored message was destroyed in place
  received,         \* the messages the receive calls returned, in order
  \* ---- ArcData, Arc (section_5/arc_basic.rs)
  ref_count,        \* ArcData.ref_count
  bArcs,            \* how many Arc handles are live
  bpc,              \* each thread's position
  bseen,            \* the counter value the thread's call observed
  bres,             \* how the thread's last call ended
  bfrees,           \* how many times Box::from_raw freed the ArcData and its payload
  baborted,         \* std::process::abort() was called
  bwrapped,         \* a fetch_add found ref_count at usize::MAX and left it 0
  \* ---- Channel, Sender, Receiver (section_4/channel_avoid_borrowing.rs)
  sp_message,       \* Channel.message: <<generation of the send, message>>, Uninit when unwritten
  sp_ready,         \* Channel.ready
  sp_gen,           \* how many times split was called
  sp_sender,        \* the Sender of the last split exists (send consumes it)
  sp_receiver,      \* the Receiver of the last split exists
  sp_pc,            \* each thread's position
  sp_res,           \* how the thread's last call ended
  sp_ret,           \* what the thread's last receive returned
  sp_sent,          \* the stored form of the messages whose send completed, in order
  sp_received,      \* <<generation of the receive, stored form returned>>, in order
  sp_destroyed,     \* the stored forms destroyed in place, in order
  sp_dropped,       \* the Channel has been dropped
  \* ---- spin_lock_main (section_4/spin_lock.rs)
  m_locked,         \* spin_lock.locked
  m_vec,            \* the Vec<i32> inside spin_lock
  m_k,              \* how many pushes each spawned thread makes under its Guard
  m_pc,             \* each spawned thread's position
  m_cnt,            \* how many pushes each spawned thread has made
  m_main,           \* the main thread's position
  m_assert,         \* how the assert! of the main thread ended
  \* ---- the mains that wait with park (channel_blocking.rs, channel_one_shot.rs,
  \* ---- channel_sender_receiver.rs)
  bk_mode,          \* which main runs: "blocking" (receive parks) or "polling" (is_ready, park)
  bk_msg,           \* the message the spawned thread sends
  bk_message,       \* Channel.message, 0 when unwritten
  bk_ready,         \* Channel.ready
  bk_token,         \* the park token of the receiving thread
  bk_spc,           \* the sending thread's position
  bk_rpc,           \* the receiving thread's position
  bk_ret,           \* what receive returned
  bk_waited,        \* a park() of the receiving thread has found no token and blocked
  \* ---- ArcData, Arc, Weak (section_5/arc_weak_pointers.rs)
  strong_ref_count, \* ArcData.strong_ref_count
  weak_ref_count,   \* ArcData.weak_ref_count
  wp_data,          \* ArcData.data: "Some" or "None"
  wp_frees,         \* how many times the ArcData was deallocated
  wp_aborted,       \* std::process::abort() was called
  wp_hkind,         \* each handle slot: "none", "arc" or "weak"
  wp_pc,            \* each thread's position
  wp_h,             \* the handle the thread's call borrows
  wp_n,             \* the local `node` of upgrade
  wp_ret,           \* how the thread's last call ended
  wp_val,           \* the number the thread's last strong_count / weak_count returned
  wp_others,        \* the handles other than its own that were live when get_mut returned Some
  wp_aliased,       \* the payload was read through another Arc while a &mut T was held
  \* ---- the orderings of the Drop impls (section_5/arc_basic.rs,
  \* ---- arc_weak_pointers.rs, arc_strong_and_weak.rs)
  o_site,           \* the Drop impl whose handles are dropped ("none" before the handles exist)
  o_cnt,            \* the counter the Drop impl decrements
  o_cview,          \* the uses a thread acquiring from the counter's current value gets to see
  o_tview,          \* for each thread, the uses that happen before its next step
  o_pend,           \* for each thread, the uses its relaxed read makes visible to a later acquire fence
  o_pc,             \* each thread's position
  o_used,           \* the threads that have used the payload / the block through their handle
  o_race,           \* the destruction is not ordered after some use
  \* ---- get_pointer_data_lazy_init (section_3/lazy_init_pointer_redirection.rs)
  PTR,              \* static PTR: 0 is null, otherwise the allocation pointed to
  lp_pc,            \* each thread's position
  lp_p,             \* the call's local p
  lp_e,             \* the e of the failed compare_exchange
  lp_ret,           \* the pointer the thread's last call returned (-1: none yet)
  lp_live,          \* the allocations not freed
  lp_freedBy,       \* for each allocation, the thread that freed it (0: nobody)
  lp_changes,       \* how many times PTR changed
  \* ---- seq_cst_ordering (section_3/seqcst_ordering.rs)
  A,                \* static A
  B,                \* static B
  S,                \* static mut S, a sequence of characters
  sq_main,          \* the position of the thread that called seq_cst_ordering
  sq_pc,            \* the positions of the threads a and b
  sq_calls,         \* how many calls of seq_cst_ordering have returned
  sq_race,          \* two push calls on S overlapped
  sq_out,           \* what println! printed, call by call
  \* ---- lazy_init (section_2/lazy_init.rs)
  VALUE,            \* static VALUE
  lz_pc,            \* each thread's position
  lz_loader,        \* the call's local loader
  lz_calc,          \* the call's local calc_value
  lz_ret            \* what the thread's last call returned (-1: none yet)

arcVars == <<data_ref_count, alloc_ref_count, NUM_DROPS, blockFrees, uaf,
             aborted, hkind, pc, th_h, th_n, th_uniq, ret, situ>>
spinVars == <<locked, value, spc, stmp, sdone, left>>
chanVars == <<message, in_use, ready, cpc, cmsg, cres, cret, written, sent,
              chanDropped, msgDestroyed, received>>

basicVars == <<ref_count, bArcs, bpc, bseen, bres, bfrees, baborted, bwrapped>>

splitVars == <<sp_message, sp_ready, sp_gen, sp_sender, sp_receiver, sp_pc, sp_res,
               sp_ret, sp_sent, sp_received, sp_destroyed, sp_dropped>>

mainVars == <<m_locked, m_vec, m_k, m_pc, m_cnt, m_main, m_assert>>

parkVars == <<bk_mode, bk_msg, bk_message, bk_ready, bk_token, bk_spc, bk_rpc,
              bk_ret, bk_waited>>

wpVars == <<strong_ref_count, weak_ref_count, wp_data, wp_frees, wp_aborted,
            wp_hkind, wp_pc, wp_h, wp_n, wp_ret, wp_val, wp_others, wp_aliased>>

ordVars == <<o_site, o_cnt, o_cview, o_tview, o_pend, o_pc, o_used, o_race>>

ptrVars == <<PTR, lp_pc, lp_p, lp_e, lp_ret, lp_live, lp_freedBy, lp_changes>>

sqVars == <<A, B, S, sq_main, sq_pc, sq_calls, sq_race, sq_out>>

lzVars == <<VALUE, lz_pc, lz_loader, lz_calc, lz_ret>>

vars == <<arcVars, spinVars, chanVars, basicVars, splitVars, mainVars, parkVars, wpVars, ordVars, ptrVars, sqVars, lzVars>>

\* ------------------------------------------------------------ initial state
\* an Arc::new that does not count the Arcs' own share of the ArcData
InitArc_AllocZero ==
  /\ data_ref_count = 1
  /\ alloc_ref_count = 0
  /\ NUM_DROPS = 0
  /\ blockFrees = 0
  /\ uaf = FALSE
  /\ aborted = FALSE
  /\ hkind = [h \in Handles |-> IF h = 1 THEN "arc" ELSE "none"]
  /\ pc = [t \in Threads |-> "idle"]
  /\ th_h = [t \in Threads |-> 0]
  /\ th_n = [t \in Threads |-> 0]
  /\ th_uniq = [t \in Threads |-> FALSE]
  /\ ret = [t \in Threads |-> "-"]
  /\ situ = [t \in Threads |-> "-"]

\* Arc::new: arc_strong_and_weak.rs:35-43. Handle 1 is the Arc it returns.
InitArc ==
  /\ data_ref_count = 1
  /\ alloc_ref_count = 1
  /\ NUM_DROPS = 0
  /\ blockFrees = 0
  /\ uaf = FALSE
  /\ aborted = FALSE
  /\ hkind = [h \in Handles |-> IF h = 1 THEN "arc" ELSE "none"]
  /\ pc = [t \in Threads |-> "idle"]
  /\ th_h = [t \in Threads |-> 0]
  /\ th_n = [t \in Threads |-> 0]
  /\ th_uniq = [t \in Threads |-> FALSE]
  /\ ret = [t \in Threads |-> "-"]
  /\ situ = [t \in Threads |-> "-"]

\* SpinLock::new: spin_lock.rs:25-30, with the counter 0 as the value.
InitSpin ==
  /\ locked = FALSE
  /\ value = 0
  /\ spc = [t \in Lockers |-> "idle"]
  /\ stmp = [t \in Lockers |-> 0]
  /\ sdone = [t \in Lockers |-> 0]
  /\ left = 0

\* Channel::new: channel_one_shot.rs:17-23.
InitChan ==
  /\ message = 0
  /\ in_use = FALSE
  /\ ready = FALSE
  /\ cpc = [t \in ChanThreads |-> "idle"]
  /\ cmsg = [t \in ChanThreads |-> 0]
  /\ cres = [t \in ChanThreads |-> "-"]
  /\ cret = [t \in ChanThreads |-> 0]
  /\ written = <<>>
  /\ sent = <<>>
  /\ chanDropped = FALSE
  /\ msgDestroyed = 0
  /\ received = <<>>

\* Arc::new: arc_basic.rs:36-43. One Arc handle, ref_count 1.
InitBasic ==
  /\ ref_count = 1
  /\ bArcs = 1
  /\ bpc = [t \in BasicThreads |-> "idle"]
  /\ bseen = [t \in BasicThreads |-> 0]
  /\ bres = [t \in BasicThreads |-> "-"]
  /\ bfrees = 0
  /\ baborted = FALSE
  /\ bwrapped = FALSE

\* MaybeUninit::uninit(): unwritten storage
Uninit == <<0, 0>>

\* Channel::new: channel_avoid_borrowing.rs:24-29. No Sender or Receiver
\* exists before the first split.
InitSplit ==
  /\ sp_message = Uninit
  /\ sp_ready = FALSE
  /\ sp_gen = 0
  /\ sp_sender = FALSE
  /\ sp_receiver = FALSE
  /\ sp_pc = [t \in SplitThreads |-> "idle"]
  /\ sp_res = [t \in SplitThreads |-> "-"]
  /\ sp_ret = [t \in SplitThreads |-> Uninit]
  /\ sp_sent = <<>>
  /\ sp_received = <<>>
  /\ sp_destroyed = <<>>
  /\ sp_dropped = FALSE

\* spin_lock_main before its first statement
InitMain ==
  /\ m_locked = FALSE
  /\ m_vec = <<>>
  /\ m_k = [w \in Workers |-> 0]
  /\ m_pc = [w \in Workers |-> "unspawned"]
  /\ m_cnt = [w \in Workers |-> 0]
  /\ m_main = "start"
  /\ m_assert = "-"

\* Channel::new and the receiving thread before the scope:
\* channel_blocking.rs:28-33, 97
InitPark ==
  /\ bk_mode = "-"
  /\ bk_msg = 0
  /\ bk_message = 0
  /\ bk_ready = FALSE
  /\ bk_token = FALSE
  /\ bk_spc = "unspawned"
  /\ bk_rpc = "start"
  /\ bk_ret = 0
  /\ bk_waited = FALSE

\* Arc::new: arc_weak_pointers.rs:44-54. One Arc handle, both counts 1.
InitWp ==
  /\ strong_ref_count = 1
  /\ weak_ref_count = 1
  /\ wp_data = "Some"
  /\ wp_frees = 0
  /\ wp_aborted = FALSE
  /\ wp_hkind = [h \in Handles |-> IF h = 1 THEN "arc" ELSE "none"]
  /\ wp_pc = [t \in Threads |-> "idle"]
  /\ wp_h = [t \in Threads |-> 0]
  /\ wp_n = [t \in Threads |-> 0]
  /\ wp_ret = [t \in Threads |-> "-"]
  /\ wp_val = [t \in Threads |-> 0]
  /\ wp_others = [t \in Threads |-> {}]
  /\ wp_aliased = FALSE

\* before any handle of the dropped allocation exists
InitOrd ==
  /\ o_site = "none"
  /\ o_cnt = 0
  /\ o_cview = {}
  /\ o_tview = [t \in Droppers |-> {}]
  /\ o_pend = [t \in Droppers |-> {}]
  /\ o_pc = [t \in Droppers |-> "none"]
  /\ o_used = {}
  /\ o_race = FALSE

\* static PTR: AtomicPtr<Data> = AtomicPtr::new(ptr::null_mut()):
\* lazy_init_pointer_redirection.rs:30
InitPtr ==
  /\ PTR = 0
  /\ lp_pc = [t \in PtrThreads |-> "idle"]
  /\ lp_p = [t \in PtrThreads |-> 0]
  /\ lp_e = [t \in PtrThreads |-> 0]
  /\ lp_ret = [t \in PtrThreads |-> -1]
  /\ lp_live = {}
  /\ lp_freedBy = [a \in PtrThreads |-> 0]
  /\ lp_changes = 0

\* the statics A, B and S: seqcst_ordering.rs:36-39
InitSq ==
  /\ A = FALSE
  /\ B = FALSE
  /\ S = <<>>
  /\ sq_main = "idle"
  /\ sq_pc = [th \in {"a", "b"} |-> "none"]
  /\ sq_calls = 0
  /\ sq_race = FALSE
  /\ sq_out = <<>>

\* static VALUE: AtomicU64 = AtomicU64::new(0): lazy_init.rs:29
InitLz ==
  /\ VALUE = 0
  /\ lz_pc = [t \in LazyThreads |-> "idle"]
  /\ lz_loader = [t \in LazyThreads |-> 0]
  /\ lz_calc = [t \in LazyThreads |-> 0]
  /\ lz_ret = [t \in LazyThreads |-> -1]

Init ==
  /\ InitArc /\ InitSpin /\ InitChan /\ InitBasic /\ InitSplit /\ InitMain /\ InitPark /\ InitWp
  /\ InitOrd /\ InitPtr /\ InitSq /\ InitLz

\* ===================================================================
\* Arc / Weak with two counters (section_5/arc_strong_and_weak.rs)
\* ===================================================================

\* wrapping usize arithmetic of fetch_add / fetch_sub
Inc(v) == (v + 1) % UsizeMod
Dec(v) == (v + UsizeMax) % UsizeMod

\* Box::from_raw(..) has been dropped: the ArcData's memory is released
Freed == blockFrees > 0

\* The values an atomic read of counter c may observe. Reading released
\* memory is undefined: the allocator may have left it intact or reused it.
Load(c) == IF Freed THEN 0..UsizeMax ELSE {c}

\* The value a write of v leaves in counter c. The content of released memory
\* is not tracked (every read of it is arbitrary): the counter keeps the value
\* it had when the block was freed.
Store(c, v) == IF Freed THEN c ELSE v

\* data(): dereferencing self.ptr; records an access to released memory
Touch == uaf' = (uaf \/ Freed)

LiveArcs == {h \in Handles : hkind[h] = "arc"}
LiveWeaks == {h \in Handles : hkind[h] = "weak"}
FreeSlots == {h \in Handles : hkind[h] = "none"}
\* the slot in which a call puts the handle it returns
FreeSlot == CHOOSE h \in FreeSlots : \A g \in FreeSlots : h <= g
\* room for the handle a starting call may return
CanCreate ==
  Cardinality(FreeSlots) > Cardinality({t \in Threads : pc[t] \in {"dg_loop", "up_loop"}})

\* &self: no call holds the handle by &mut (get_mut) and it is not dropped
SharedOk(h) == \A t \in Threads : th_h[t] = h => pc[t] \in {"dg_loop", "up_loop"}
\* &mut self / self by value: no call borrows the handle at all
ExclOk(h) == \A t \in Threads : th_h[t] # h

\* A thread may enter a call. Once a call has used released memory the
\* behaviour of the program is undefined: the calls in progress are followed
\* to their end, with every read of the released block arbitrary, and no new
\* call is started.
Idle(t) == ~aborted /\ ~uaf /\ pc[t] = "idle"

\* leave a call: back to idle with result r
Return(t, r) ==
  /\ pc' = [pc EXCEPT ![t] = "idle"]
  /\ th_h' = [th_h EXCEPT ![t] = 0]
  /\ th_n' = [th_n EXCEPT ![t] = 0]
  /\ ret' = [ret EXCEPT ![t] = r]

\* enter a call: the previous call's result is gone
Begin(t) ==
  /\ ret' = [ret EXCEPT ![t] = "-"]
  /\ situ' = [situ EXCEPT ![t] = "-"]
  /\ th_n' = [th_n EXCEPT ![t] = 0]

\* impl Clone for Arc: arc_strong_and_weak.rs:167-175
ArcClone(t, h) ==
  /\ Idle(t) /\ hkind[h] = "arc" /\ SharedOk(h) /\ CanCreate
  /\ \E v \in Load(data_ref_count) :
       /\ data_ref_count' = Store(data_ref_count, Inc(v))
       /\ IF v > HalfMax
            THEN aborted' = TRUE /\ UNCHANGED hkind
            ELSE hkind' = [hkind EXCEPT ![FreeSlot] = "arc"] /\ UNCHANGED aborted
  /\ Touch /\ Begin(t)
  /\ UNCHANGED <<alloc_ref_count, NUM_DROPS, blockFrees, pc, th_h, th_uniq>>
  /\ UNCHANGED <<spinVars, chanVars, basicVars, splitVars, mainVars, parkVars, wpVars, ordVars, ptrVars, sqVars, lzVars>>

\* impl Clone for Weak: arc_strong_and_weak.rs:146-154
WeakClone(t, h) ==
  /\ Idle(t) /\ hkind[h] = "weak" /\ SharedOk(h) /\ CanCreate
  /\ \E v \in Load(alloc_ref_count) :
       /\ alloc_ref_count' = Store(alloc_ref_count, Inc(v))
       /\ IF v > HalfMax
            THEN aborted' = TRUE /\ UNCHANGED hkind
            ELSE hkind' = [hkind EXCEPT ![FreeSlot] = "weak"] /\ UNCHANGED aborted
  /\ Touch /\ Begin(t)
  /\ UNCHANGED <<data_ref_count, NUM_DROPS, blockFrees, pc, th_h, th_uniq>>
  /\ UNCHANGED <<spinVars, chanVars, basicVars, splitVars, mainVars, parkVars, wpVars, ordVars, ptrVars, sqVars, lzVars>>

\* Arc::downgrade, the first load: arc_strong_and_weak.rs:88
DowngradeLoad(t, h) ==
  /\ Idle(t) /\ hkind[h] = "arc" /\ SharedOk(h) /\ CanCreate
  /\ \E v \in Load(alloc_ref_count) : th_n' = [th_n EXCEPT ![t] = v]
  /\ pc' = [pc EXCEPT ![t] = "dg_loop"]
  /\ th_h' = [th_h EXCEPT ![t] = h]
  /\ ret' = [ret EXCEPT ![t] = "-"]
  /\ situ' = [situ EXCEPT ![t] = "-"]
  /\ Touch
  /\ UNCHANGED <<data_ref_count, alloc_ref_count, NUM_DROPS, blockFrees, aborted,
                 hkind, th_uniq>>
  /\ UNCHANGED <<spinVars, chanVars, basicVars, splitVars, mainVars, parkVars, wpVars, ordVars, ptrVars, sqVars, lzVars>>

\* a downgrade loop without the assert!: it compare-exchanges whatever it
\* observed
DowngradeLoop_NoAssert(t) ==
  /\ ~aborted /\ pc[t] = "dg_loop"
  /\ LET n == th_n[t] IN
     IF n = UsizeMax
       THEN /\ \E v \in Load(alloc_ref_count) : th_n' = [th_n EXCEPT ![t] = v]
            /\ Touch
            /\ UNCHANGED <<alloc_ref_count, hkind, pc, th_h, ret>>
       ELSE \E cur \in Load(alloc_ref_count) :
              /\ Touch
              /\ IF cur = n
                   THEN /\ alloc_ref_count' = Store(alloc_ref_count, Inc(n))
                        /\ hkind' = [hkind EXCEPT ![FreeSlot] = "weak"]
                        /\ Return(t, "-")
                   ELSE /\ th_n' = [th_n EXCEPT ![t] = cur]
                        /\ UNCHANGED <<alloc_ref_count, hkind, pc, th_h, ret>>
  /\ UNCHANGED <<data_ref_count, NUM_DROPS, blockFrees, aborted, th_uniq, situ>>
  /\ UNCHANGED <<spinVars, chanVars, basicVars, splitVars, mainVars, parkVars, wpVars, ordVars, ptrVars, sqVars, lzVars>>

\* Arc::downgrade, one turn of the loop: arc_strong_and_weak.rs:89-107
DowngradeLoop(t) ==
  /\ ~aborted /\ pc[t] = "dg_loop"
  /\ LET n == th_n[t] IN
     IF n = UsizeMax
       THEN \* the sentinel of get_mut: spin and load again
            /\ \E v \in Load(alloc_ref_count) : th_n' = [th_n EXCEPT ![t] = v]
            /\ Touch
            /\ UNCHANGED <<alloc_ref_count, hkind, pc, th_h, ret>>
       ELSE IF n > HalfMax
       THEN \* assert!(n <= usize::MAX >> 1) panics
            /\ Return(t, "panic")
            /\ UNCHANGED <<alloc_ref_count, hkind, uaf>>
       ELSE \E cur \in Load(alloc_ref_count) :
              /\ Touch
              /\ IF cur = n
                   THEN /\ alloc_ref_count' = Store(alloc_ref_count, n + 1)
                        /\ hkind' = [hkind EXCEPT ![FreeSlot] = "weak"]
                        /\ Return(t, "-")
                   ELSE /\ th_n' = [th_n EXCEPT ![t] = cur]
                        /\ UNCHANGED <<alloc_ref_count, hkind, pc, th_h, ret>>
  /\ UNCHANGED <<data_ref_count, NUM_DROPS, blockFrees, aborted, th_uniq, situ>>
  /\ UNCHANGED <<spinVars, chanVars, basicVars, splitVars, mainVars, parkVars, wpVars, ordVars, ptrVars, sqVars, lzVars>>

\* Weak::upgrade, the first load: arc_strong_and_weak.rs:126
UpgradeLoad(t, h) ==
  /\ Idle(t) /\ hkind[h] = "weak" /\ SharedOk(h) /\ CanCreate
  /\ \E v \in Load(data_ref_count) : th_n' = [th_n EXCEPT ![t] = v]
  /\ pc' = [pc EXCEPT ![t] = "up_loop"]
  /\ th_h' = [th_h EXCEPT ![t] = h]
  /\ ret' = [ret EXCEPT ![t] = "-"]
  \* "dead": every Arc had been dropped when the call began; "kept": some Arc
  \* has been live at every moment of the call so far ("lost" otherwise)
  /\ situ' = [situ EXCEPT ![t] = IF LiveArcs = {} THEN "dead" ELSE "kept"]
  /\ Touch
  /\ UNCHANGED <<data_ref_count, alloc_ref_count, NUM_DROPS, blockFrees, aborted,
                 hkind, th_uniq>>
  /\ UNCHANGED <<spinVars, chanVars, basicVars, splitVars, mainVars, parkVars, wpVars, ordVars, ptrVars, sqVars, lzVars>>

\* Weak::upgrade, one turn of the loop: arc_strong_and_weak.rs:127-142
UpgradeLoop(t) ==
  /\ ~aborted /\ pc[t] = "up_loop"
  /\ LET n == th_n[t] IN
     IF n = 0
       THEN /\ Return(t, "up_None")
            /\ UNCHANGED <<data_ref_count, hkind, uaf>>
       ELSE IF n > HalfMax
       THEN \* assert!(n <= usize::MAX >> 1) panics
            /\ Return(t, "panic")
            /\ UNCHANGED <<data_ref_count, hkind, uaf>>
       ELSE \E cur \in Load(data_ref_count) :
              /\ Touch
              /\ IF cur = n
                   THEN /\ data_ref_count' = Store(data_ref_count, n + 1)
                        /\ hkind' = [hkind EXCEPT ![FreeSlot] = "arc"]
                        /\ Return(t, "up_Some")
                   ELSE /\ th_n' = [th_n EXCEPT ![t] = cur]
                        /\ UNCHANGED <<data_ref_count, hkind, pc, th_h, ret>>
  /\ UNCHANGED <<alloc_ref_count, NUM_DROPS, blockFrees, aborted, th_uniq, situ>>
  /\ UNCHANGED <<spinVars, chanVars, basicVars, splitVars, mainVars, parkVars, wpVars, ordVars, ptrVars, sqVars, lzVars>>

\* Arc::get_mut, the compare_exchange(1, usize::MAX): arc_strong_and_weak.rs:64-71
GetMutCas(t, h) ==
  /\ Idle(t) /\ hkind[h] = "arc" /\ ExclOk(h)
  /\ \E cur \in Load(alloc_ref_count) :
       IF cur = 1
         THEN /\ alloc_ref_count' = Store(alloc_ref_count, UsizeMax)
              /\ pc' = [pc EXCEPT ![t] = "gm_load"]
              /\ th_h' = [th_h EXCEPT ![t] = h]
              /\ ret' = [ret EXCEPT ![t] = "-"]
              /\ th_n' = [th_n EXCEPT ![t] = 0]
         ELSE /\ Return(t, "gm_None")
              /\ UNCHANGED alloc_ref_count
  \* "sole": the calling Arc was the only live handle when the call began
  /\ situ' = [situ EXCEPT ![t] = IF LiveArcs \cup LiveWeaks = {h} THEN "sole" ELSE "shared"]
  /\ Touch
  /\ UNCHANGED <<data_ref_count, NUM_DROPS, blockFrees, aborted, hkind, th_uniq>>
  /\ UNCHANGED <<spinVars, chanVars, basicVars, splitVars, mainVars, parkVars, wpVars, ordVars, ptrVars, sqVars, lzVars>>

\* Arc::get_mut, is_unique: arc_strong_and_weak.rs:72
GetMutLoad(t) ==
  /\ ~aborted /\ pc[t] = "gm_load"
  /\ \E v \in Load(data_ref_count) : th_uniq' = [th_uniq EXCEPT ![t] = (v = 1)]
  /\ pc' = [pc EXCEPT ![t] = "gm_store"]
  /\ Touch
  /\ UNCHANGED <<data_ref_count, alloc_ref_count, NUM_DROPS, blockFrees, aborted,
                 hkind, th_h, th_n, ret, situ>>
  /\ UNCHANGED <<spinVars, chanVars, basicVars, splitVars, mainVars, parkVars, wpVars, ordVars, ptrVars, sqVars, lzVars>>

\* Arc::get_mut, the restoring store and the result: arc_strong_and_weak.rs:76-83
GetMutStore(t) ==
  /\ ~aborted /\ pc[t] = "gm_store"
  /\ alloc_ref_count' = Store(alloc_ref_count, 1)
  /\ IF th_uniq[t]
       THEN \* Some(&mut T): the caller holds the mutable reference
            /\ pc' = [pc EXCEPT ![t] = "gm_some"]
            /\ UNCHANGED <<th_h, th_n, ret>>
       ELSE Return(t, "gm_None")
  /\ th_uniq' = [th_uniq EXCEPT ![t] = FALSE]
  /\ Touch
  /\ UNCHANGED <<data_ref_count, NUM_DROPS, blockFrees, aborted, hkind, situ>>
  /\ UNCHANGED <<spinVars, chanVars, basicVars, splitVars, mainVars, parkVars, wpVars, ordVars, ptrVars, sqVars, lzVars>>

\* the &mut T returned by get_mut goes out of use
GetMutRelease(t) ==
  /\ ~aborted /\ pc[t] = "gm_some"
  /\ Return(t, "-")
  /\ UNCHANGED <<data_ref_count, alloc_ref_count, NUM_DROPS, blockFrees, uaf, aborted,
                 hkind, th_uniq, situ>>
  /\ UNCHANGED <<spinVars, chanVars, basicVars, splitVars, mainVars, parkVars, wpVars, ordVars, ptrVars, sqVars, lzVars>>

\* a Drop for Arc that drops the Arcs' Weak only after the last Arc
ArcDropAfterSub_OnlyLast(v) == IF v = 1 THEN "dropA_payload" ELSE "idle"

\* Where impl Drop for Arc goes after its fetch_sub returned v:
\* arc_strong_and_weak.rs:179-186. drop(Weak { ptr: self.ptr }) is outside
\* the if of line 179, so every drop of an Arc drops a Weak as well.
ArcDropAfterSub(v) == IF v = 1 THEN "dropA_payload" ELSE "dropA_weak"

\* impl Drop for Arc, the fetch_sub: arc_strong_and_weak.rs:178-179.
\* The handle is consumed; an upgrade in progress loses its last live Arc
\* when this was the only one.
ArcDropSub(t, h) ==
  /\ Idle(t) /\ hkind[h] = "arc" /\ ExclOk(h)
  /\ \E v \in Load(data_ref_count) :
       /\ data_ref_count' = Store(data_ref_count, Dec(v))
       /\ pc' = [pc EXCEPT ![t] = ArcDropAfterSub(v)]
  /\ hkind' = [hkind EXCEPT ![h] = "none"]
  /\ situ' = [u \in Threads |->
               IF u = t THEN "-"
               ELSE IF pc[u] = "up_loop" /\ situ[u] = "kept" /\ LiveArcs = {h}
                 THEN "lost" ELSE situ[u]]
  /\ ret' = [ret EXCEPT ![t] = "-"]
  /\ th_n' = [th_n EXCEPT ![t] = 0]
  /\ Touch
  /\ UNCHANGED <<alloc_ref_count, NUM_DROPS, blockFrees, aborted, th_h, th_uniq>>
  /\ UNCHANGED <<spinVars, chanVars, basicVars, splitVars, mainVars, parkVars, wpVars, ordVars, ptrVars, sqVars, lzVars>>

\* impl Drop for Arc, ManuallyDrop::drop of the payload: arc_strong_and_weak.rs:180-183
ArcDropPayload(t) ==
  /\ ~aborted /\ pc[t] = "dropA_payload"
  /\ NUM_DROPS' = IF NUM_DROPS < 2 THEN NUM_DROPS + 1 ELSE NUM_DROPS
  /\ pc' = [pc EXCEPT ![t] = "dropA_weak"]
  /\ Touch
  /\ UNCHANGED <<data_ref_count, alloc_ref_count, blockFrees, aborted, hkind, th_h,
                 th_n, th_uniq, ret, situ>>
  /\ UNCHANGED <<spinVars, chanVars, basicVars, splitVars, mainVars, parkVars, wpVars, ordVars, ptrVars, sqVars, lzVars>>

\* impl Drop for Arc, drop(Weak { ptr: self.ptr }): arc_strong_and_weak.rs:186,
\* which is the fetch_sub of impl Drop for Weak (158)
ArcDropWeak(t) ==
  /\ ~aborted /\ pc[t] = "dropA_weak"
  /\ \E v \in Load(alloc_ref_count) :
       /\ alloc_ref_count' = Store(alloc_ref_count, Dec(v))
       /\ pc' = [pc EXCEPT ![t] = IF v = 1 THEN "drop_free" ELSE "idle"]
  /\ Touch
  /\ UNCHANGED <<data_ref_count, NUM_DROPS, blockFrees, aborted, hkind, th_h, th_n,
                 th_uniq, ret, situ>>
  /\ UNCHANGED <<spinVars, chanVars, basicVars, splitVars, mainVars, parkVars, wpVars, ordVars, ptrVars, sqVars, lzVars>>

\* impl Drop for Weak, the fetch_sub: arc_strong_and_weak.rs:157-158
WeakDropSub(t, h) ==
  /\ Idle(t) /\ hkind[h] = "weak" /\ ExclOk(h)
  /\ \E v \in Load(alloc_ref_count) :
       /\ alloc_ref_count' = Store(alloc_ref_count, Dec(v))
       /\ pc' = [pc EXCEPT ![t] = IF v = 1 THEN "drop_free" ELSE "idle"]
  /\ hkind' = [hkind EXCEPT ![h] = "none"]
  /\ Touch /\ Begin(t)
  /\ UNCHANGED <<data_ref_count, NUM_DROPS, blockFrees, aborted, th_h, th_uniq>>
  /\ UNCHANGED <<spinVars, chanVars, basicVars, splitVars, mainVars, parkVars, wpVars, ordVars, ptrVars, sqVars, lzVars>>

\* impl Drop for Weak, drop(Box::from_raw(..)): arc_strong_and_weak.rs:159-162
DropFree(t) ==
  /\ ~aborted /\ pc[t] = "drop_free"
  /\ blockFrees' = IF blockFrees < 2 THEN blockFrees + 1 ELSE blockFrees
  /\ pc' = [pc EXCEPT ![t] = "idle"]
  /\ UNCHANGED <<data_ref_count, alloc_ref_count, NUM_DROPS, uaf, aborted, hkind,
                 th_h, th_n, th_uniq, ret, situ>>
  /\ UNCHANGED <<spinVars, chanVars, basicVars, splitVars, mainVars, parkVars, wpVars, ordVars, ptrVars, sqVars, lzVars>>

\* Arc::strong_count: arc_strong_and_weak.rs:55-57. The count read is the
\* call's result.
StrongCount(t, h) ==
  /\ Idle(t) /\ hkind[h] = "arc" /\ SharedOk(h)
  /\ \E v \in Load(data_ref_count) : th_n' = [th_n EXCEPT ![t] = v]
  /\ ret' = [ret EXCEPT ![t] = "strong"]
  /\ situ' = [situ EXCEPT ![t] = "-"]
  /\ Touch
  /\ UNCHANGED <<data_ref_count, alloc_ref_count, NUM_DROPS, blockFrees, aborted,
                 hkind, pc, th_h, th_uniq>>
  /\ UNCHANGED <<spinVars, chanVars, basicVars, splitVars, mainVars, parkVars, wpVars, ordVars, ptrVars, sqVars, lzVars>>

\* Arc::weak_count: arc_strong_and_weak.rs:50-52
WeakCount(t, h) ==
  /\ Idle(t) /\ hkind[h] = "arc" /\ SharedOk(h)
  /\ \E v \in Load(alloc_ref_count) : th_n' = [th_n EXCEPT ![t] = v]
  /\ ret' = [ret EXCEPT ![t] = "weak"]
  /\ situ' = [situ EXCEPT ![t] = "-"]
  /\ Touch
  /\ UNCHANGED <<data_ref_count, alloc_ref_count, NUM_DROPS, blockFrees, aborted,
                 hkind, pc, th_h, th_uniq>>
  /\ UNCHANGED <<spinVars, chanVars, basicVars, splitVars, mainVars, parkVars, wpVars, ordVars, ptrVars, sqVars, lzVars>>

\* impl Deref for Arc: arc_strong_and_weak.rs:111-117. The payload is read
\* in place; the result says whether its destructor had already run.
Deref(t, h) ==
  /\ Idle(t) /\ hkind[h] = "arc" /\ SharedOk(h)
  /\ ret' = [ret EXCEPT ![t] = IF NUM_DROPS > 0 THEN "deref_destroyed" ELSE "deref"]
  /\ th_n' = [th_n EXCEPT ![t] = 0]
  /\ situ' = [situ EXCEPT ![t] = "-"]
  /\ Touch
  /\ UNCHANGED <<data_ref_count, alloc_ref_count, NUM_DROPS, blockFrees, aborted,
                 hkind, pc, th_h, th_uniq>>
  /\ UNCHANGED <<spinVars, chanVars, basicVars, splitVars, mainVars, parkVars, wpVars, ordVars, ptrVars, sqVars, lzVars>>

NextArc ==
  \E t \in Threads :
    \/ \E h \in Handles :
         \/ ArcClone(t, h)
         \/ WeakClone(t, h)
         \/ DowngradeLoad(t, h)
         \/ UpgradeLoad(t, h)
         \/ GetMutCas(t, h)
         \/ ArcDropSub(t, h)
         \/ WeakDropSub(t, h)
         \/ StrongCount(t, h)
         \/ WeakCount(t, h)
         \/ Deref(t, h)
    \/ DowngradeLoop(t)
    \/ UpgradeLoop(t)
    \/ GetMutLoad(t)
    \/ GetMutStore(t)
    \/ GetMutRelease(t)
    \/ ArcDropPayload(t)
    \/ ArcDropWeak(t)
    \/ DropFree(t)

SpecArc == Init /\ [][NextArc]_vars

\* ===================================================================
\* Properties of Arc / Weak
\* ===================================================================

\* no call is in progress on the ArcData
AllQuiet == \A t \in Threads : pc[t] = "idle"
LiveHandles == LiveArcs \cup LiveWeaks

\* C1: the payload's destructor runs exactly once, and only after the last
\* live Arc has been dropped: never twice, never while an Arc is live, and it
\* has run once every Arc is dropped and every call has ended.
C1_PayloadDestroyedExactlyOnce ==
  /\ NUM_DROPS <= 1
  /\ (NUM_DROPS > 0 => LiveArcs = {})
  /\ (LiveArcs = {} /\ AllQuiet /\ ~aborted => NUM_DROPS = 1)

\* C2: the ArcData is freed at most once, only after every Arc and every Weak
\* has been dropped, and no call on a handle touches it once it is freed.
C2_BlockFreedOnceAfterAllHandles ==
  /\ blockFrees <= 1
  /\ (Freed => LiveHandles = {})
  /\ ~uaf

\* C3: when no call is in progress, alloc_ref_count is the number of live
\* Weaks, plus one if an Arc is live; so it is >= 1 whenever data_ref_count >= 1.
C3_AllocCountIsWeaksPlusOne ==
  AllQuiet =>
    /\ alloc_ref_count = Cardinality(LiveWeaks) + (IF LiveArcs # {} THEN 1 ELSE 0)
    /\ (data_ref_count >= 1 => alloc_ref_count >= 1)

\* C4: an upgrade begun after every Arc was dropped returns None; an upgrade
\* during which some Arc stays live returns Some, and the step that returns it
\* leaves data_ref_count one higher.
C4_UpgradeNoneIffNoArc ==
  [][\A t \in Threads :
       (pc[t] = "up_loop" /\ pc'[t] = "idle") =>
          /\ (situ[t] = "dead" => ret'[t] = "up_None")
          /\ (situ[t] = "kept" =>
                ret'[t] = "up_Some" /\ data_ref_count' = data_ref_count + 1)]_vars

\* C5: while get_mut's Some(&mut T) is held, the calling Arc is the only live
\* handle of the ArcData.
C5_GetMutSomeOnlyWhenUnique ==
  \A t \in Threads : pc[t] = "gm_some" => LiveHandles = {th_h[t]}

\* C6: a get_mut called on the only live handle of the ArcData returns Some.
C6_GetMutSomeWhenUnique ==
  \A t \in Threads : ret[t] = "gm_None" => situ[t] # "sole"

\* C16: the drop of an Arc that observed a pre-decrement data_ref_count
\* greater than 1 changes data_ref_count only: the rest of the call neither
\* destroys the payload nor changes alloc_ref_count. (A call at the
\* drop(Weak) of line 186 while the payload has never been destroyed is such
\* a drop: the drop that observed 1 destroys the payload first.)
C16_NonFinalDropChangesOnlyDataCount ==
  [][\A t \in Threads :
       (pc[t] = "dropA_weak" /\ NUM_DROPS = 0 /\ pc'[t] # "dropA_weak") =>
          /\ alloc_ref_count' = alloc_ref_count
          /\ NUM_DROPS' = NUM_DROPS]_vars

\* C17: every access to the payload through an Arc precedes the payload's
\* destruction and every access to the ArcData precedes its deallocation
\* (an access that comes after it in the run cannot happen-before it): no
\* Deref finds the payload destroyed, and no call touches the freed ArcData.
C17_AccessesPrecedeDestruction ==
  /\ \A t \in Threads : ret[t] # "deref_destroyed"
  /\ (Freed => ~uaf)

\* C21: the strong count never goes from 0 back to a positive value, and an
\* upgrade never returns Some once the payload has been destroyed: an
\* upgrade that races with the drop of the last Arc returns None or has made
\* its increment before the final decrement.
C21_UpgradeNeverRevives ==
  [][/\ (data_ref_count = 0 => data_ref_count' = 0)
     /\ \A t \in Threads :
          (UpgradeLoop(t) /\ ret'[t] = "up_Some") => NUM_DROPS = 0]_vars

CallStep(t) ==
  \/ DowngradeLoop(t)
  \/ UpgradeLoop(t)
  \/ GetMutLoad(t)
  \/ GetMutStore(t)
  \/ GetMutRelease(t)
  \/ ArcDropPayload(t)
  \/ ArcDropWeak(t)
  \/ DropFree(t)

\* Fair scheduling: a thread inside a call keeps running. A failed
\* compare_exchange_weak that read the value the loop already had changes
\* nothing, so a turn of a retry loop is a step only when it makes progress
\* or observes a new value.
SpecArcFair == SpecArc /\ \A t \in Threads : WF_vars(CallStep(t))

\* thread t is inside the retry loop of downgrade or of upgrade
InLoop(t) == pc[t] \in {"dg_loop", "up_loop"}

\* C23: the retry loops of upgrade and downgrade do not block forever:
\* under fair scheduling, once the other threads have stopped (any get_mut
\* has restored alloc_ref_count, nobody modifies the counters any more)
\* every call of downgrade or upgrade returns.
C23_RetryLoopsReturn ==
  \A t \in Threads :
    (<>[](\A u \in Threads \ {t} : pc[u] = "idle")) => []<>(~InLoop(t))

\* ===================================================================
\* SpinLock and Guard (section_4/spin_lock.rs)
\* ===================================================================

\* a swap that stores false: the lock is never taken
LockSwapStored_False == FALSE

\* what self.locked.swap(true, Acquire) stores: spin_lock.rs:37
LockSwapStored == TRUE

\* a lock() that returns the Guard whatever the swap returned
LockAfterSwap_NoSpin(prev) == "held"

\* SpinLock::lock after a swap that returned prev: spin_lock.rs:37-41.
\* The loop goes on while the swap returns true; the Guard is returned
\* after a swap that returned false.
LockAfterSwap(prev) == IF prev THEN "spin" ELSE "held"

\* the lockers that hold a Guard
Guards == {t \in Lockers : spc[t] \in {"held", "read", "written"}}

\* SpinLock::lock, one swap of the loop: spin_lock.rs:35-42
LockSwap(t) ==
  /\ spc[t] \in {"idle", "spin"}
  /\ sdone[t] < MIncr
  /\ locked' = LockSwapStored
  /\ spc' = [spc EXCEPT ![t] = LockAfterSwap(locked)]
  /\ UNCHANGED <<value, stmp, sdone, left>>
  /\ UNCHANGED <<arcVars, chanVars, basicVars, splitVars, mainVars, parkVars, wpVars, ordVars, ptrVars, sqVars, lzVars>>

\* *guard += 1, the read through Deref: spin_lock.rs:63-69
GuardRead(t) ==
  /\ spc[t] = "held"
  /\ stmp' = [stmp EXCEPT ![t] = value]
  /\ spc' = [spc EXCEPT ![t] = "read"]
  /\ UNCHANGED <<locked, value, sdone, left>>
  /\ UNCHANGED <<arcVars, chanVars, basicVars, splitVars, mainVars, parkVars, wpVars, ordVars, ptrVars, sqVars, lzVars>>

\* *guard += 1, the write through DerefMut: spin_lock.rs:71-76
GuardWrite(t) ==
  /\ spc[t] = "read"
  /\ value' = stmp[t] + 1
  /\ stmp' = [stmp EXCEPT ![t] = 0]
  /\ spc' = [spc EXCEPT ![t] = "written"]
  /\ UNCHANGED <<locked, sdone, left>>
  /\ UNCHANGED <<arcVars, chanVars, basicVars, splitVars, mainVars, parkVars, wpVars, ordVars, ptrVars, sqVars, lzVars>>

\* a Guard whose drop leaves locked as it is
GuardDrop_NoUnlock(t) ==
  /\ spc[t] = "written"
  /\ sdone' = [sdone EXCEPT ![t] = sdone[t] + 1]
  /\ spc' = [spc EXCEPT ![t] = "idle"]
  /\ left' = value
  /\ UNCHANGED <<locked, value, stmp>>
  /\ UNCHANGED <<arcVars, chanVars, basicVars, splitVars, mainVars, parkVars, wpVars, ordVars, ptrVars, sqVars, lzVars>>

\* impl Drop for Guard: spin_lock.rs:82-86
GuardDrop(t) ==
  /\ spc[t] = "written"
  /\ locked' = FALSE
  /\ sdone' = [sdone EXCEPT ![t] = sdone[t] + 1]
  /\ spc' = [spc EXCEPT ![t] = "idle"]
  /\ left' = value
  /\ UNCHANGED <<value, stmp>>
  /\ UNCHANGED <<arcVars, chanVars, basicVars, splitVars, mainVars, parkVars, wpVars, ordVars, ptrVars, sqVars, lzVars>>

NextSpin ==
  \E t \in Lockers :
    \/ LockSwap(t)
    \/ GuardRead(t)
    \/ GuardWrite(t)
    \/ GuardDrop(t)

SpecSpin == Init /\ [][NextSpin]_vars

\* a Guard whose drop leaves locked as it is, for a critical section that
\* wrote nothing
GuardRelease_NoUnlock(t) ==
  /\ spc[t] = "held"
  /\ spc' = [spc EXCEPT ![t] = "idle"]
  /\ left' = value
  /\ UNCHANGED <<locked, value, stmp, sdone>>
  /\ UNCHANGED <<arcVars, chanVars, basicVars, splitVars, mainVars, parkVars, wpVars, ordVars, ptrVars, sqVars, lzVars>>

\* impl Drop for Guard (spin_lock.rs:82-86) at the end of a critical section
\* that wrote nothing: lock() followed by the drop of the Guard
GuardRelease(t) ==
  /\ spc[t] = "held"
  /\ locked' = FALSE
  /\ spc' = [spc EXCEPT ![t] = "idle"]
  /\ left' = value
  /\ UNCHANGED <<value, stmp, sdone>>
  /\ UNCHANGED <<arcVars, chanVars, basicVars, splitVars, mainVars, parkVars, wpVars, ordVars, ptrVars, sqVars, lzVars>>

NextSpinFair ==
  \/ NextSpin
  \/ \E t \in Lockers : GuardRelease(t)

\* the steps of the thread that holds a Guard, up to the Guard's drop
GuardStep(t) == GuardRead(t) \/ GuardWrite(t) \/ GuardDrop(t) \/ GuardRelease(t)

\* Weak fairness: every Guard is eventually dropped, and a thread inside
\* the loop of lock() (spin_lock.rs:37-39) keeps running. A swap that finds
\* the lock taken changes nothing, so the swap of a spinning thread is a
\* step only while the lock is free.
SpecSpinFair ==
  /\ Init /\ [][NextSpinFair]_vars
  /\ \A t \in Lockers : WF_vars(GuardStep(t))
  /\ \A t \in Lockers : WF_vars(spc[t] = "spin" /\ LockSwap(t))

\* C7: at most one Guard of the SpinLock exists at any instant, and locked is
\* true for as long as it exists (a Guard is only returned by a swap that
\* found locked false, and the next one only after the Guard is dropped).
C7_AtMostOneGuard ==
  /\ Cardinality(Guards) <= 1
  /\ (Guards # {} => locked)

\* a locker holds the Guard in the middle of its increment while another one
\* has called lock() and spins
C7_Witness ==
  \E t, u \in Lockers : t # u /\ spc[t] = "read" /\ spc[u] = "spin"

\* C8: when each of the NLockers threads has made its MIncr increments
\* through a Guard, the counter is exactly NLockers * MIncr.
C8_NoLostUpdate ==
  (\A t \in Lockers : sdone[t] = MIncr) => value = NLockers * MIncr

\* every locker has completed all of its increments
C8_Witness ==
  /\ \A t \in Lockers : sdone[t] = MIncr /\ spc[t] = "idle"
  /\ value = NLockers * MIncr
  /\ ~locked

\* C18: dropping a Guard sets locked to false (locked is false whenever no
\* Guard exists), and the thread whose lock() next succeeds reads through its
\* Guard the value the previous holder left when it dropped its Guard.
C18_NextHolderSeesWrites ==
  /\ (Guards = {} => ~locked /\ value = left)
  /\ \A t \in Lockers : spc[t] = "held" => value = left
  /\ \A t \in Lockers : spc[t] = "read" => stmp[t] = left

\* a locker that has not written yet reads through its Guard the value
\* another locker wrote and left
C18_Witness ==
  \E t \in Lockers :
    spc[t] = "read" /\ sdone[t] = 0 /\ stmp[t] = left /\ left >= 1 /\ locked

\* some thread is inside the loop of lock()
Spinning == \E t \in Lockers : spc[t] = "spin"

\* C24, deadlock freedom: if every Guard is eventually dropped then, under
\* weak fairness, whenever a thread is spinning in lock() some thread
\* eventually acquires the lock: the Guard that keeps the spinning thread
\* out is dropped, and a lock that is free while a thread is spinning is
\* acquired.
C24_DeadlockFree ==
  /\ Spinning ~> (Guards = {})
  /\ (Spinning /\ Guards = {}) ~> (\E u \in Lockers : spc[u] = "held")

\* a thread is spinning in lock() while another thread, which acquired the
\* lock after an earlier Guard was dropped, holds the Guard
C24_Witness ==
  \E t, u \in Lockers :
    spc[t] = "spin" /\ spc[u] = "held" /\ sdone[t] = 0 /\ left >= 1

\* C24, starvation freedom, which the lock does not have: every thread
\* that spins in lock() eventually acquires the lock. Violated under
\* SpecSpinFair: the other threads lock and unlock again and again, and
\* each swap of the spinning thread falls where the lock is taken.
SpinStarvationFree ==
  \A t \in Lockers : (spc[t] = "spin") ~> (spc[t] = "held")

\* ===================================================================
\* One-shot Channel with in_use (section_4/channel_one_shot.rs)
\* ===================================================================

\* a send that goes on whatever in_use was
SendRefused_Never(prev) == FALSE

\* Channel::send after self.in_use.swap(true, Relaxed) returned prev:
\* channel_one_shot.rs:27-29, panic!("can't send more than one message")
SendRefused(prev) == prev

\* a send that sets ready without having written the message
SendAfterSwap_NoWrite == "send_store"

\* Channel::send once in_use is taken: the message is written next
\* (channel_one_shot.rs:31-33), ready is stored after it (34)
SendAfterSwap == "send_write"

ChanIdle(t) == ~chanDropped /\ cpc[t] = "idle"

\* a send that writes the storage before it tests in_use
SendSwap_WriteFirst(t, m) ==
  /\ ChanIdle(t)
  /\ in_use' = TRUE
  /\ message' = m
  /\ IF SendRefused(in_use)
       THEN /\ cres' = [cres EXCEPT ![t] = "panic_send"]
            /\ UNCHANGED <<cpc, cmsg>>
       ELSE /\ cpc' = [cpc EXCEPT ![t] = SendAfterSwap]
            /\ cmsg' = [cmsg EXCEPT ![t] = m]
            /\ cres' = [cres EXCEPT ![t] = "-"]
  /\ cret' = [cret EXCEPT ![t] = 0]
  /\ UNCHANGED <<ready, written, sent, chanDropped, msgDestroyed, received>>
  /\ UNCHANGED <<arcVars, spinVars, basicVars, splitVars, mainVars, parkVars, wpVars, ordVars, ptrVars, sqVars, lzVars>>

\* Channel::send, the swap of in_use: channel_one_shot.rs:26-29
SendSwap(t, m) ==
  /\ ChanIdle(t)
  /\ in_use' = TRUE
  /\ IF SendRefused(in_use)
       THEN /\ cres' = [cres EXCEPT ![t] = "panic_send"]
            /\ UNCHANGED <<cpc, cmsg>>
       ELSE /\ cpc' = [cpc EXCEPT ![t] = SendAfterSwap]
            /\ cmsg' = [cmsg EXCEPT ![t] = m]
            /\ cres' = [cres EXCEPT ![t] = "-"]
  /\ cret' = [cret EXCEPT ![t] = 0]
  /\ UNCHANGED <<message, ready, written, sent, chanDropped, msgDestroyed, received>>
  /\ UNCHANGED <<arcVars, spinVars, basicVars, splitVars, mainVars, parkVars, wpVars, ordVars, ptrVars, sqVars, lzVars>>

\* Channel::send, (*self.message.get()).write(message): channel_one_shot.rs:31-33
SendWrite(t) ==
  /\ ~chanDropped /\ cpc[t] = "send_write"
  /\ message' = cmsg[t]
  /\ written' = Append(written, cmsg[t])
  /\ cpc' = [cpc EXCEPT ![t] = "send_store"]
  /\ UNCHANGED <<in_use, ready, cmsg, cres, cret, sent, chanDropped, msgDestroyed, received>>
  /\ UNCHANGED <<arcVars, spinVars, basicVars, splitVars, mainVars, parkVars, wpVars, ordVars, ptrVars, sqVars, lzVars>>

\* Channel::send, self.ready.store(true, Release): channel_one_shot.rs:34
SendStore(t) ==
  /\ ~chanDropped /\ cpc[t] = "send_store"
  /\ ready' = TRUE
  /\ sent' = Append(sent, cmsg[t])
  /\ cpc' = [cpc EXCEPT ![t] = "idle"]
  /\ cmsg' = [cmsg EXCEPT ![t] = 0]
  /\ cres' = [cres EXCEPT ![t] = "sent"]
  /\ UNCHANGED <<message, in_use, cret, written, chanDropped, msgDestroyed, received>>
  /\ UNCHANGED <<arcVars, spinVars, basicVars, splitVars, mainVars, parkVars, wpVars, ordVars, ptrVars, sqVars, lzVars>>

\* an is_ready that takes the flag with a swap, as receive does
IsReady_Swap(t) ==
  /\ ~chanDropped /\ cpc[t] = "idle"
  /\ ready' = FALSE
  /\ cres' = [cres EXCEPT ![t] = IF ready THEN "ready_true" ELSE "ready_false"]
  /\ cret' = [cret EXCEPT ![t] = 0]
  /\ UNCHANGED <<message, in_use, cpc, cmsg, written, sent, chanDropped,
                 msgDestroyed, received>>
  /\ UNCHANGED <<arcVars, spinVars, basicVars, splitVars, mainVars, parkVars, wpVars, ordVars, ptrVars, sqVars, lzVars>>

\* Channel::is_ready: channel_one_shot.rs:40-42
IsReady(t) ==
  /\ ChanIdle(t)
  /\ cres' = [cres EXCEPT ![t] = IF ready THEN "ready_true" ELSE "ready_false"]
  /\ cret' = [cret EXCEPT ![t] = 0]
  /\ UNCHANGED <<message, in_use, ready, cpc, cmsg, written, sent, chanDropped,
                 msgDestroyed, received>>
  /\ UNCHANGED <<arcVars, spinVars, basicVars, splitVars, mainVars, parkVars, wpVars, ordVars, ptrVars, sqVars, lzVars>>

\* a receive that reads the storage whatever the swap returned
ReceiveSwap_NoCheck(t) ==
  /\ ~chanDropped /\ cpc[t] = "idle"
  /\ ready' = FALSE
  /\ cpc' = [cpc EXCEPT ![t] = "recv_read"]
  /\ cres' = [cres EXCEPT ![t] = "-"]
  /\ cret' = [cret EXCEPT ![t] = 0]
  /\ UNCHANGED <<message, in_use, cmsg, written, sent, chanDropped, msgDestroyed, received>>
  /\ UNCHANGED <<arcVars, spinVars, basicVars, splitVars, mainVars, parkVars, wpVars, ordVars, ptrVars, sqVars, lzVars>>

\* a receive that tests ready with a load and leaves it set
ReceiveSwap_NoReset(t) ==
  /\ ~chanDropped /\ cpc[t] = "idle"
  /\ IF ready
       THEN /\ cpc' = [cpc EXCEPT ![t] = "recv_read"]
            /\ cres' = [cres EXCEPT ![t] = "-"]
       ELSE /\ cres' = [cres EXCEPT ![t] = "panic_recv"]
            /\ UNCHANGED cpc
  /\ cret' = [cret EXCEPT ![t] = 0]
  /\ UNCHANGED <<message, in_use, ready, cmsg, written, sent, chanDropped,
                 msgDestroyed, received>>
  /\ UNCHANGED <<arcVars, spinVars, basicVars, splitVars, mainVars, parkVars, wpVars, ordVars, ptrVars, sqVars, lzVars>>

\* Channel::receive, the swap of ready: channel_one_shot.rs:52-55,
\* panic!("no message available!")
ReceiveSwap(t) ==
  /\ ChanIdle(t)
  /\ ready' = FALSE
  /\ IF ready
       THEN /\ cpc' = [cpc EXCEPT ![t] = "recv_read"]
            /\ cres' = [cres EXCEPT ![t] = "-"]
       ELSE /\ cres' = [cres EXCEPT ![t] = "panic_recv"]
            /\ UNCHANGED cpc
  /\ cret' = [cret EXCEPT ![t] = 0]
  /\ UNCHANGED <<message, in_use, cmsg, written, sent, chanDropped, msgDestroyed, received>>
  /\ UNCHANGED <<arcVars, spinVars, basicVars, splitVars, mainVars, parkVars, wpVars, ordVars, ptrVars, sqVars, lzVars>>

\* Channel::receive, assume_init_read: channel_one_shot.rs:58.
\* The call returns what the storage holds.
ReceiveRead(t) ==
  /\ ~chanDropped /\ cpc[t] = "recv_read"
  /\ cret' = [cret EXCEPT ![t] = message]
  /\ cres' = [cres EXCEPT ![t] = "msg"]
  /\ cpc' = [cpc EXCEPT ![t] = "idle"]
  /\ received' = Append(received, message)
  /\ UNCHANGED <<message, in_use, ready, cmsg, written, sent, chanDropped, msgDestroyed>>
  /\ UNCHANGED <<arcVars, spinVars, basicVars, splitVars, mainVars, parkVars, wpVars, ordVars, ptrVars, sqVars, lzVars>>

\* a drop that destroys the storage's content without looking at ready
ChannelDrop_Always ==
  /\ ~chanDropped
  /\ \A t \in ChanThreads : cpc[t] = "idle"
  /\ chanDropped' = TRUE
  /\ msgDestroyed' = msgDestroyed + 1
  /\ UNCHANGED <<message, in_use, ready, cpc, cmsg, cres, cret, written, sent,
                 received>>
  /\ UNCHANGED <<arcVars, spinVars, basicVars, splitVars, mainVars, parkVars, wpVars, ordVars, ptrVars, sqVars, lzVars>>

\* a drop that looks at in_use instead of ready
ChannelDrop_IfInUse ==
  /\ ~chanDropped
  /\ \A t \in ChanThreads : cpc[t] = "idle"
  /\ chanDropped' = TRUE
  /\ msgDestroyed' = IF in_use THEN msgDestroyed + 1 ELSE msgDestroyed
  /\ UNCHANGED <<message, in_use, ready, cpc, cmsg, cres, cret, written, sent,
                 received>>
  /\ UNCHANGED <<arcVars, spinVars, basicVars, splitVars, mainVars, parkVars, wpVars, ordVars, ptrVars, sqVars, lzVars>>

\* impl Drop for Channel: channel_one_shot.rs:62-68. drop(&mut self): no
\* call is in progress.
ChannelDrop ==
  /\ ~chanDropped
  /\ \A t \in ChanThreads : cpc[t] = "idle"
  /\ chanDropped' = TRUE
  /\ msgDestroyed' = IF ready THEN msgDestroyed + 1 ELSE msgDestroyed
  /\ UNCHANGED <<message, in_use, ready, cpc, cmsg, cres, cret, written, sent,
                 received>>
  /\ UNCHANGED <<arcVars, spinVars, basicVars, splitVars, mainVars, parkVars, wpVars, ordVars, ptrVars, sqVars, lzVars>>

NextChan ==
  \/ \E t \in ChanThreads :
       \/ \E m \in Msgs : SendSwap(t, m)
       \/ SendWrite(t)
       \/ SendStore(t)
       \/ IsReady(t)
       \/ ReceiveSwap(t)
       \/ ReceiveRead(t)
  \/ ChannelDrop

SpecChan == Init /\ [][NextChan]_vars

\* the threads inside a send that has taken in_use
Sending == {t \in ChanThreads : cpc[t] \in {"send_write", "send_store"}}

\* C9: a receive that follows a completed send(m) returns exactly m: while
\* the message is there to be received (ready, or a receive is reading it)
\* the storage holds the message of the completed send, and what a receive
\* returned is that message.
C9_ReceiveReturnsSentMessage ==
  /\ (ready \/ \E t \in ChanThreads : cpc[t] = "recv_read") =>
        (sent # <<>> /\ message = sent[Len(sent)])
  /\ \A t \in ChanThreads :
        cres[t] = "msg" => (sent # <<>> /\ cret[t] = sent[Len(sent)])

\* a receive has returned the message NMsgs, which a send of another thread
\* completed
C9_Witness ==
  \E t, u \in ChanThreads :
    t # u /\ cres[t] = "msg" /\ cret[t] = NMsgs /\ cres[u] = "sent" /\ sent = <<NMsgs>>

Receiving == {t \in ChanThreads : cpc[t] = "recv_read"}

\* C11: a receive called while ready is false (no send has completed, also
\* while a send is between writing the message and setting ready) panics at
\* once with "no message available!": the call is over after its swap, it
\* does not wait, it does not go on to read the storage, and the storage and
\* ready are as they were.
C11_ReceiveNotReadyPanics ==
  [][\A t \in ChanThreads :
       (ReceiveSwap(t) /\ ~ready) =>
          /\ cres'[t] = "panic_recv"
          /\ cpc'[t] = "idle"
          /\ UNCHANGED <<message, ready, received>>]_vars

\* a receive has panicked and nothing was received, while the send of another
\* thread has written its message and not yet set ready
C11_Witness ==
  \E t, u \in ChanThreads :
    /\ cres[t] = "panic_recv" /\ cpc[t] = "idle"
    /\ cpc[u] = "send_store" /\ ~ready /\ message # 0 /\ received = <<>>

\* C12: a sent message is returned by at most one receive: the message of a
\* completed send is either still to be received (ready), being read by one
\* receive, or was returned by one receive, and never two of these; every
\* message returned is the one that was sent.
C12_MessageReceivedAtMostOnce ==
  /\ Len(received) + Cardinality(Receiving) + (IF ready THEN 1 ELSE 0) = Len(sent)
  /\ Len(received) + Cardinality(Receiving) <= 1
  /\ \A i \in 1..Len(received) : received[i] = sent[1]

\* one receive returned the message and the receive calls of the two other
\* threads panicked
C12_Witness ==
  \E t, u, v \in ChanThreads :
    /\ t # u /\ t # v /\ u # v
    /\ cres[t] = "msg" /\ cret[t] = sent[1] /\ received = sent
    /\ cres[u] = "panic_recv" /\ cres[v] = "panic_recv"

\* C13: when the Channel is dropped the stored message is destroyed if and
\* only if a send completed and no receive took its message (ready is still
\* true); so every sent message ends either returned by a receive or
\* destroyed by the drop, never both and never neither.
C13_DropDestroysUnreceived ==
  /\ msgDestroyed <= 1
  /\ (~chanDropped => msgDestroyed = 0)
  /\ chanDropped =>
        /\ (msgDestroyed = 1 <=> ready)
        /\ (ready <=> (sent # <<>> /\ received = <<>>))
        /\ Len(received) + msgDestroyed = Len(sent)

\* the Channel was dropped holding a message that was sent and never received
C13_Witness ==
  chanDropped /\ msgDestroyed = 1 /\ Len(sent) = 1 /\ received = <<>>

\* C19: is_ready consumes nothing: the call changes neither ready, in_use nor
\* the stored message, and it returns true exactly when a send has completed
\* and no receive has taken its message.
C19_IsReadyReadsOnly ==
  [][\A t \in ChanThreads :
       IsReady(t) =>
          /\ UNCHANGED <<ready, in_use, message>>
          /\ (cres'[t] = "ready_true" <=>
                (sent # <<>> /\ received = <<>> /\ Receiving = {}))]_vars

\* is_ready returned true and the message is still there to be received
C19_Witness ==
  \E t \in ChanThreads :
    cres[t] = "ready_true" /\ ready /\ message = sent[1] /\ received = <<>>

\* the storage of the one-shot channel as a tagged state: Empty until send's
\* write (channel_one_shot.rs:31-33), Occupied until the read of receive (58)
\* or of the destructor (64-66), Consumed afterwards
Storage ==
  IF written = <<>> THEN "Empty"
  ELSE IF received = <<>> /\ msgDestroyed = 0 THEN "Occupied"
  ELSE "Consumed"

BasicInc(v) == (v + 1) % BasicMod
BasicDec(v) == (v + BasicMax) % BasicMod

\* a clone that aborts only when it finds the counter at usize::MAX
CloneOverflows_AtMax(v) == v > BasicMax - 1

\* impl Clone for Arc, the test on what fetch_add returned: arc_basic.rs:98,
\* `> usize::MAX >> 1`
CloneOverflows(v) == v > BasicHalfMax

\* the clone calls that have incremented ref_count and are about to abort
Aborting == {t \in BasicThreads : bpc[t] = "clone_abort"}

\* A thread may enter a call. Once ref_count has wrapped the calls in
\* progress are followed to their end and no new call is started.
BasicIdle(t) == ~baborted /\ ~bwrapped /\ bpc[t] = "idle"

\* impl Clone for Arc, the fetch_add and the test: arc_basic.rs:97-98; the
\* new handle of line 102 when the test passes
BasicCloneAdd(t) ==
  /\ BasicIdle(t) /\ bArcs >= 1
  /\ ref_count' = BasicInc(ref_count)
  /\ bwrapped' = (bwrapped \/ ref_count = BasicMax)
  /\ bseen' = [bseen EXCEPT ![t] = ref_count]
  /\ IF CloneOverflows(ref_count)
       THEN /\ bpc' = [bpc EXCEPT ![t] = "clone_abort"]
            /\ bres' = [bres EXCEPT ![t] = "-"]
            /\ UNCHANGED bArcs
       ELSE /\ bArcs' = bArcs + 1
            /\ bres' = [bres EXCEPT ![t] = "cloned"]
            /\ UNCHANGED bpc
  /\ UNCHANGED <<bfrees, baborted>>
  /\ UNCHANGED <<arcVars, spinVars, chanVars, splitVars, mainVars, parkVars, wpVars, ordVars, ptrVars, sqVars, lzVars>>

\* impl Clone for Arc, std::process::abort(): arc_basic.rs:99. The process
\* ends; until this step the other threads keep running.
BasicCloneAbort(t) ==
  /\ ~baborted /\ bpc[t] = "clone_abort"
  /\ baborted' = TRUE
  /\ bres' = [bres EXCEPT ![t] = "abort"]
  /\ UNCHANGED <<ref_count, bArcs, bpc, bseen, bfrees, bwrapped>>
  /\ UNCHANGED <<arcVars, spinVars, chanVars, splitVars, mainVars, parkVars, wpVars, ordVars, ptrVars, sqVars, lzVars>>

\* a drop that frees the ArcData whatever its fetch_sub returned
BasicDropSub_FreeAlways(t) ==
  /\ BasicIdle(t)
  /\ bArcs > (IF Aborting # {} THEN 1 ELSE 0)
  /\ ref_count' = BasicDec(ref_count)
  /\ bArcs' = bArcs - 1
  /\ bseen' = [bseen EXCEPT ![t] = ref_count]
  /\ bres' = [bres EXCEPT ![t] = "-"]
  /\ bpc' = [bpc EXCEPT ![t] = "drop_free"]
  /\ UNCHANGED <<bfrees, baborted, bwrapped>>
  /\ UNCHANGED <<arcVars, spinVars, chanVars, splitVars, mainVars, parkVars, wpVars, ordVars, ptrVars, sqVars, lzVars>>

\* impl Drop for Arc, the fetch_sub: arc_basic.rs:116-117. The handle
\* dropped is one no call borrows.
BasicDropSub(t) ==
  /\ BasicIdle(t)
  /\ bArcs > (IF Aborting # {} THEN 1 ELSE 0)
  /\ ref_count' = BasicDec(ref_count)
  /\ bArcs' = bArcs - 1
  /\ bseen' = [bseen EXCEPT ![t] = ref_count]
  /\ bres' = [bres EXCEPT ![t] = "-"]
  /\ bpc' = [bpc EXCEPT ![t] = IF ref_count = 1 THEN "drop_free" ELSE "idle"]
  /\ UNCHANGED <<bfrees, baborted, bwrapped>>
  /\ UNCHANGED <<arcVars, spinVars, chanVars, splitVars, mainVars, parkVars, wpVars, ordVars, ptrVars, sqVars, lzVars>>

\* impl Drop for Arc, fence and drop(Box::from_raw(..)): arc_basic.rs:118-119
BasicDropFree(t) ==
  /\ ~baborted /\ bpc[t] = "drop_free"
  /\ bfrees' = bfrees + 1
  /\ bpc' = [bpc EXCEPT ![t] = "idle"]
  /\ bres' = [bres EXCEPT ![t] = "freed"]
  /\ UNCHANGED <<ref_count, bArcs, bseen, baborted, bwrapped>>
  /\ UNCHANGED <<arcVars, spinVars, chanVars, splitVars, mainVars, parkVars, wpVars, ordVars, ptrVars, sqVars, lzVars>>

\* Arc::count: arc_basic.rs:53-55
BasicCount(t) ==
  /\ BasicIdle(t) /\ bArcs >= 1
  /\ bseen' = [bseen EXCEPT ![t] = ref_count]
  /\ bres' = [bres EXCEPT ![t] = "count"]
  /\ UNCHANGED <<ref_count, bArcs, bpc, bfrees, baborted, bwrapped>>
  /\ UNCHANGED <<arcVars, spinVars, chanVars, splitVars, mainVars, parkVars, wpVars, ordVars, ptrVars, sqVars, lzVars>>

NextBasic ==
  \E t \in BasicThreads :
    \/ BasicCloneAdd(t)
    \/ BasicCloneAbort(t)
    \/ BasicDropSub(t)
    \/ BasicDropFree(t)
    \/ BasicCount(t)

SpecBasic == Init /\ [][NextBasic]_vars

BasicQuiet == \A t \in BasicThreads : bpc[t] = "idle"

\* C33: between calls (no clone is on its way to abort) ref_count, which
\* is what count() returns, is the number of live Arcs; the ArcData is
\* freed once, by the drop whose fetch_sub returned 1, never while an Arc
\* is live, and it is freed once all Arcs are dropped.
C33_CountIsLiveArcs ==
  /\ [](BasicQuiet => ref_count = bArcs)
  /\ [](bfrees <= 1 /\ (bArcs > 0 => bfrees = 0))
  /\ []((BasicQuiet /\ bArcs = 0) => bfrees = 1)
  /\ [][\A t \in BasicThreads :
          /\ (BasicCount(t) /\ BasicQuiet) => bseen'[t] = bArcs
          /\ BasicDropFree(t) => (bseen[t] = 1 /\ bfrees = 0)]_vars

\* count() returned 2 while two Arcs were live, and the last drop, which
\* observed 1, freed the ArcData
C33_Witness ==
  /\ bArcs = 0 /\ bfrees = 1 /\ BasicQuiet
  /\ \E t, u \in BasicThreads :
       /\ bres[t] = "freed" /\ bseen[t] = 1
       /\ bres[u] = "count" /\ bseen[u] = 2

\* ===================================================================
\* Counters above usize::MAX / 2 (section_5/arc_strong_and_weak.rs)
\* ===================================================================

\* std::mem::forget of a clone or of a Weak by the caller: the handle is gone
\* and its destructor never runs, so the counter keeps counting it. This is
\* how a counter comes to exceed the number of handles that fit in memory;
\* the Arc of Arc::new (handle 1) is kept.
Forget(t, h) ==
  /\ Idle(t) /\ h # 1 /\ hkind[h] \in {"arc", "weak"} /\ ExclOk(h)
  /\ hkind' = [hkind EXCEPT ![h] = "none"]
  /\ UNCHANGED <<data_ref_count, alloc_ref_count, NUM_DROPS, blockFrees, uaf, aborted,
                 pc, th_h, th_n, th_uniq, ret, situ>>
  /\ UNCHANGED <<spinVars, chanVars, basicVars, splitVars, mainVars, parkVars, wpVars, ordVars, ptrVars, sqVars, lzVars>>

\* Handles are cloned, downgraded, upgraded and forgotten and get_mut is
\* called, in any interleaving; nothing is dropped.
NextOverflow ==
  \E t \in Threads :
    \/ \E h \in Handles :
         \/ ArcClone(t, h)
         \/ WeakClone(t, h)
         \/ DowngradeLoad(t, h)
         \/ UpgradeLoad(t, h)
         \/ GetMutCas(t, h)
         \/ Forget(t, h)
    \/ DowngradeLoop(t)
    \/ UpgradeLoop(t)
    \/ GetMutLoad(t)
    \/ GetMutStore(t)
    \/ GetMutRelease(t)

SpecOverflow == Init /\ [][NextOverflow]_vars

\* C34 as stated: a turn of the downgrade or upgrade loop that observed a
\* value above MAX/2 leaves the counter as it is, makes no handle and
\* terminates the whole process.
C34_OverflowTerminatesProcess ==
  [][\A t \in Threads :
       /\ (DowngradeLoop(t) /\ th_n[t] > HalfMax) =>
            (alloc_ref_count' = alloc_ref_count /\ hkind' = hkind /\ aborted')
       /\ (UpgradeLoop(t) /\ th_n[t] > HalfMax) =>
            (data_ref_count' = data_ref_count /\ hkind' = hkind /\ aborted')]_vars

\* C34, amended: a turn of the downgrade or upgrade loop that observed a
\* value above MAX/2 does no compare-exchange: the counter is left as it is
\* and no handle is made. The process is not terminated: on usize::MAX (the
\* mark get_mut leaves in alloc_ref_count) downgrade stays in its loop with a
\* fresh load, on every other such value the assert! fails and the call
\* panics in the calling thread.
C34_OverflowPanicsOrSpins ==
  [][\A t \in Threads :
       /\ (DowngradeLoop(t) /\ th_n[t] > HalfMax) =>
            /\ alloc_ref_count' = alloc_ref_count /\ hkind' = hkind /\ ~aborted'
            /\ IF th_n[t] = UsizeMax
                 THEN pc'[t] = "dg_loop" /\ ret'[t] = "-"
                 ELSE pc'[t] = "idle" /\ ret'[t] = "panic"
       /\ (UpgradeLoop(t) /\ th_n[t] > HalfMax) =>
            /\ data_ref_count' = data_ref_count /\ hkind' = hkind /\ ~aborted'
            /\ pc'[t] = "idle" /\ ret'[t] = "panic"]_vars

\* both counters stand above MAX/2 with no memory released, an upgrade and a
\* downgrade have panicked on them, and the process runs on
C34_Witness ==
  /\ ~uaf /\ ~aborted /\ ~Freed
  /\ data_ref_count > HalfMax /\ alloc_ref_count > HalfMax
  /\ alloc_ref_count # UsizeMax
  /\ \A t \in Threads : ret[t] = "panic"

\* a downgrade spins on the mark of a get_mut in progress
C34_WitnessSpin ==
  /\ ~uaf /\ alloc_ref_count = UsizeMax
  /\ \E t, u \in Threads : pc[t] = "dg_loop" /\ th_n[t] = UsizeMax /\ pc[u] = "gm_load"

\* ===================================================================
\* new, downgrade and the drop of the Weak (section_5/arc_strong_and_weak.rs)
\* ===================================================================

\* The Arc of Arc::new is kept; it is downgraded, the Weaks are dropped and
\* the two counts are read, in any interleaving.
NextDowngrade ==
  \E t \in Threads :
    \/ \E h \in Handles :
         \/ DowngradeLoad(t, h)
         \/ WeakDropSub(t, h)
         \/ StrongCount(t, h)
         \/ WeakCount(t, h)
    \/ DowngradeLoop(t)

SpecDowngrade == Init /\ [][NextDowngrade]_vars

\* C15: after Arc::new the strong count is 1 and the weak count 1; with one
\* Weak made by downgrade live the weak count read is 2, and 1 again once
\* that Weak is dropped (one more than the number of live Weaks); the strong
\* count read is 1 throughout.
C15_CountsAfterNewAndDowngrade ==
  [][\A t \in Threads, h \in Handles :
       /\ (WeakCount(t, h) => th_n'[t] = 1 + Cardinality(LiveWeaks))
       /\ (StrongCount(t, h) => th_n'[t] = 1)]_vars

\* a thread has read weak count 2 (a downgraded Weak was live), a thread has
\* read weak count 1, and the Weak is dropped: only the Arc of new is left
C15_Witness ==
  \E t, u \in Threads :
    /\ ret[t] = "weak" /\ th_n[t] = 2
    /\ ret[u] = "weak" /\ th_n[u] = 1
    /\ LiveWeaks = {} /\ LiveArcs = {1} /\ data_ref_count = 1

\* ===================================================================
\* new, clone, the drop of an Arc and the counts
\* (section_5/arc_strong_and_weak.rs:167-188, tests 233-260)
\* ===================================================================
NextCloneDrop ==
  \E t \in Threads :
    \/ \E h \in Handles :
         \/ ArcClone(t, h)
         \/ ArcDropSub(t, h)
         \/ StrongCount(t, h)
         \/ WeakCount(t, h)
    \/ ArcDropPayload(t)
    \/ ArcDropWeak(t)
    \/ DropFree(t)

SpecCloneDrop == Init /\ [][NextCloneDrop]_vars

\* C32 as stated: between calls strong_count() returns the number of live
\* Arcs (2 after one clone, 1 again after the clone's drop) and
\* weak_count() returns 1 until an Arc has been dropped and 0 after the
\* drop of the clone.
C32_CountsAfterCloneAndDrop ==
  [][\A t \in Threads, h \in Handles :
       /\ (StrongCount(t, h) /\ AllQuiet) => th_n'[t] = Cardinality(LiveArcs)
       /\ (WeakCount(t, h) /\ AllQuiet) =>
             th_n'[t] = (IF Freed THEN 0 ELSE 1)]_vars

\* C32 as the code has it: until an Arc is dropped strong_count() returns
\* the number of live Arcs and weak_count() returns 1; every drop of an
\* Arc goes on to decrement alloc_ref_count; the drop of a clone, run alone,
\* leaves data_ref_count at the number of Arcs left and alloc_ref_count at
\* 0 and goes on to free the ArcData, so that between calls an
\* alloc_ref_count of 0 belongs to a freed ArcData.
C32_CloneCountsThenDropFrees ==
  /\ []((AllQuiet /\ ~Freed) =>
          (data_ref_count = Cardinality(LiveArcs) /\ alloc_ref_count = 1))
  /\ []((AllQuiet /\ alloc_ref_count = 0) => Freed)
  /\ [][\A t \in Threads :
          /\ \A h \in Handles :
               /\ (StrongCount(t, h) /\ AllQuiet /\ ~Freed) =>
                     th_n'[t] = Cardinality(LiveArcs)
               /\ (WeakCount(t, h) /\ AllQuiet /\ ~Freed) => th_n'[t] = 1
               /\ ArcDropSub(t, h) => pc'[t] \in {"dropA_payload", "dropA_weak"}
          /\ (ArcDropWeak(t) /\ ~Freed /\ \A u \in Threads \ {t} : pc[u] = "idle") =>
                /\ data_ref_count' = Cardinality(LiveArcs)
                /\ alloc_ref_count' = 0
                /\ pc'[t] = "drop_free"]_vars

\* the clone was dropped: data_ref_count is 1 and alloc_ref_count 0, the
\* ArcData is freed while the first Arc is live, and a weak_count() on that
\* Arc read the freed memory
C32_Witness ==
  /\ AllQuiet /\ Freed /\ uaf
  /\ Cardinality(LiveArcs) = 1 /\ data_ref_count = 1 /\ alloc_ref_count = 0
  /\ \E t \in Threads : ret[t] = "weak"

\* ===================================================================
\* Reusable Channel with split (section_4/channel_avoid_borrowing.rs)
\* ===================================================================
\* Sender and Receiver borrow the Channel: split (&mut self) and the drop of
\* the Channel can only run when the pair of the previous split is gone.

\* no Sender, no Receiver and so no call
SplitUnborrowed ==
  /\ ~sp_sender /\ ~sp_receiver
  /\ \A t \in SplitThreads : sp_pc[t] = "idle"

\* impl Drop for Channel: channel_avoid_borrowing.rs:63-69. What is
\* destroyed in place when a Channel value is dropped.
SplitDestroyedByDrop ==
  IF sp_ready THEN Append(sp_destroyed, sp_message) ELSE sp_destroyed

\* a split that hands out the pair without `*self = Self::new()`
Split_NoReset ==
  /\ ~sp_dropped /\ SplitUnborrowed /\ sp_gen < MaxGen
  /\ sp_gen' = sp_gen + 1
  /\ sp_sender' = TRUE
  /\ sp_receiver' = TRUE
  /\ UNCHANGED <<sp_message, sp_ready, sp_destroyed, sp_pc, sp_res, sp_ret, sp_sent,
                 sp_received, sp_dropped>>
  /\ UNCHANGED <<arcVars, spinVars, chanVars, basicVars, mainVars, parkVars, wpVars, ordVars, ptrVars, sqVars, lzVars>>

\* Channel::split: channel_avoid_borrowing.rs:36-39. `*self = Self::new()`
\* drops the old Channel value (Drop, 63-69) and puts a new one in its place.
Split ==
  /\ ~sp_dropped /\ SplitUnborrowed /\ sp_gen < MaxGen
  /\ sp_destroyed' = SplitDestroyedByDrop
  /\ sp_message' = Uninit
  /\ sp_ready' = FALSE
  /\ sp_gen' = sp_gen + 1
  /\ sp_sender' = TRUE
  /\ sp_receiver' = TRUE
  /\ UNCHANGED <<sp_pc, sp_res, sp_ret, sp_sent, sp_received, sp_dropped>>
  /\ UNCHANGED <<arcVars, spinVars, chanVars, basicVars, mainVars, parkVars, wpVars, ordVars, ptrVars, sqVars, lzVars>>

\* a send through a Sender that can be used again (send(&self, ..))
SplitSendWrite_KeepSender(t, m) ==
  /\ sp_sender /\ sp_pc[t] = "idle"
  /\ sp_message' = <<sp_gen, m>>
  /\ sp_pc' = [sp_pc EXCEPT ![t] = "send_store"]
  /\ sp_res' = [sp_res EXCEPT ![t] = "-"]
  /\ sp_ret' = [sp_ret EXCEPT ![t] = Uninit]
  /\ UNCHANGED <<sp_ready, sp_gen, sp_sender, sp_receiver, sp_sent, sp_received,
                 sp_destroyed, sp_dropped>>
  /\ UNCHANGED <<arcVars, spinVars, chanVars, basicVars, mainVars, parkVars, wpVars, ordVars, ptrVars, sqVars, lzVars>>

\* Sender::send, (*self.channel.message.get()).write(message):
\* channel_avoid_borrowing.rs:43-44. The call takes the Sender.
SplitSendWrite(t, m) ==
  /\ sp_sender /\ sp_pc[t] = "idle"
  /\ sp_sender' = FALSE
  /\ sp_message' = <<sp_gen, m>>
  /\ sp_pc' = [sp_pc EXCEPT ![t] = "send_store"]
  /\ sp_res' = [sp_res EXCEPT ![t] = "-"]
  /\ sp_ret' = [sp_ret EXCEPT ![t] = Uninit]
  /\ UNCHANGED <<sp_ready, sp_gen, sp_receiver, sp_sent, sp_received, sp_destroyed,
                 sp_dropped>>
  /\ UNCHANGED <<arcVars, spinVars, chanVars, basicVars, mainVars, parkVars, wpVars, ordVars, ptrVars, sqVars, lzVars>>

\* Sender::send, self.channel.ready.store(true, Release):
\* channel_avoid_borrowing.rs:45
SplitSendStore(t) ==
  /\ sp_pc[t] = "send_store"
  /\ sp_ready' = TRUE
  /\ sp_sent' = Append(sp_sent, sp_message)
  /\ sp_pc' = [sp_pc EXCEPT ![t] = "idle"]
  /\ sp_res' = [sp_res EXCEPT ![t] = "sent"]
  /\ UNCHANGED <<sp_message, sp_gen, sp_sender, sp_receiver, sp_ret, sp_received,
                 sp_destroyed, sp_dropped>>
  /\ UNCHANGED <<arcVars, spinVars, chanVars, basicVars, mainVars, parkVars, wpVars, ordVars, ptrVars, sqVars, lzVars>>

\* a Sender dropped without a send
SplitSenderDrop ==
  /\ sp_sender
  /\ sp_sender' = FALSE
  /\ UNCHANGED <<sp_message, sp_ready, sp_gen, sp_receiver, sp_pc, sp_res, sp_ret,
                 sp_sent, sp_received, sp_destroyed, sp_dropped>>
  /\ UNCHANGED <<arcVars, spinVars, chanVars, basicVars, mainVars, parkVars, wpVars, ordVars, ptrVars, sqVars, lzVars>>

\* Receiver::is_ready: channel_avoid_borrowing.rs:50-52
SplitIsReady(t) ==
  /\ sp_receiver /\ sp_pc[t] = "idle"
  /\ sp_res' = [sp_res EXCEPT ![t] = IF sp_ready THEN "ready_true" ELSE "ready_false"]
  /\ sp_ret' = [sp_ret EXCEPT ![t] = Uninit]
  /\ UNCHANGED <<sp_message, sp_ready, sp_gen, sp_sender, sp_receiver, sp_pc, sp_sent,
                 sp_received, sp_destroyed, sp_dropped>>
  /\ UNCHANGED <<arcVars, spinVars, chanVars, basicVars, mainVars, parkVars, wpVars, ordVars, ptrVars, sqVars, lzVars>>

\* Receiver::receive, the swap of ready: channel_avoid_borrowing.rs:54-57,
\* panic!("no message available!")
SplitReceiveSwap(t) ==
  /\ sp_receiver /\ sp_pc[t] = "idle"
  /\ sp_ready' = FALSE
  /\ IF sp_ready
       THEN /\ sp_pc' = [sp_pc EXCEPT ![t] = "recv_read"]
            /\ sp_res' = [sp_res EXCEPT ![t] = "-"]
       ELSE /\ sp_res' = [sp_res EXCEPT ![t] = "panic_recv"]
            /\ UNCHANGED sp_pc
  /\ sp_ret' = [sp_ret EXCEPT ![t] = Uninit]
  /\ UNCHANGED <<sp_message, sp_gen, sp_sender, sp_receiver, sp_sent, sp_received,
                 sp_destroyed, sp_dropped>>
  /\ UNCHANGED <<arcVars, spinVars, chanVars, basicVars, mainVars, parkVars, wpVars, ordVars, ptrVars, sqVars, lzVars>>

\* Receiver::receive, assume_init_read: channel_avoid_borrowing.rs:59
SplitReceiveRead(t) ==
  /\ sp_pc[t] = "recv_read"
  /\ sp_ret' = [sp_ret EXCEPT ![t] = sp_message]
  /\ sp_received' = Append(sp_received, <<sp_gen, sp_message>>)
  /\ sp_res' = [sp_res EXCEPT ![t] = "msg"]
  /\ sp_pc' = [sp_pc EXCEPT ![t] = "idle"]
  /\ UNCHANGED <<sp_message, sp_ready, sp_gen, sp_sender, sp_receiver, sp_sent,
                 sp_destroyed, sp_dropped>>
  /\ UNCHANGED <<arcVars, spinVars, chanVars, basicVars, mainVars, parkVars, wpVars, ordVars, ptrVars, sqVars, lzVars>>

\* the Receiver goes out of scope: no call through it is in progress
SplitReceiverDrop ==
  /\ sp_receiver
  /\ \A t \in SplitThreads : sp_pc[t] # "recv_read"
  /\ sp_receiver' = FALSE
  /\ UNCHANGED <<sp_message, sp_ready, sp_gen, sp_sender, sp_pc, sp_res, sp_ret,
                 sp_sent, sp_received, sp_destroyed, sp_dropped>>
  /\ UNCHANGED <<arcVars, spinVars, chanVars, basicVars, mainVars, parkVars, wpVars, ordVars, ptrVars, sqVars, lzVars>>

\* impl Drop for Channel at the end of the Channel's life:
\* channel_avoid_borrowing.rs:63-69
SplitChannelDrop ==
  /\ ~sp_dropped /\ SplitUnborrowed
  /\ sp_destroyed' = SplitDestroyedByDrop
  /\ sp_dropped' = TRUE
  /\ UNCHANGED <<sp_message, sp_ready, sp_gen, sp_sender, sp_receiver, sp_pc, sp_res,
                 sp_ret, sp_sent, sp_received>>
  /\ UNCHANGED <<arcVars, spinVars, chanVars, basicVars, mainVars, parkVars, wpVars, ordVars, ptrVars, sqVars, lzVars>>

NextSplit ==
  \/ Split
  \/ SplitSenderDrop
  \/ SplitReceiverDrop
  \/ SplitChannelDrop
  \/ \E t \in SplitThreads :
       \/ \E m \in Msgs : SplitSendWrite(t, m)
       \/ SplitSendStore(t)
       \/ SplitIsReady(t)
       \/ SplitReceiveSwap(t)
       \/ SplitReceiveRead(t)

SpecSplit == Init /\ [][NextSplit]_vars

\* how many times x occurs in the sequence s
Occurrences(s, x) == Cardinality({i \in 1..Len(s) : s[i] = x})
\* the messages returned by receive calls, in their stored form
ReceivedMessages == [i \in 1..Len(sp_received) |-> sp_received[i][2]]
\* nothing has been written to the storage since the last split
Unwritten ==
  /\ sp_sender \/ sp_gen = 0
  /\ \A t \in SplitThreads : sp_pc[t] # "send_store"

\* C20: split resets the Channel whatever state it was in: from the split
\* until the send of the new generation writes, ready is false and the
\* storage is unwritten; a message sent in an earlier generation was either
\* returned by a receive of its own generation or destroyed exactly once,
\* and no receive returns a message of another generation than its own.
C20_SplitResetsChannel ==
  /\ (Unwritten => ~sp_ready /\ sp_message = Uninit)
  /\ \A i \in 1..Len(sp_sent) :
        sp_sent[i][1] < sp_gen =>
          Occurrences(ReceivedMessages, sp_sent[i])
            + Occurrences(sp_destroyed, sp_sent[i]) = 1
  /\ \A i \in 1..Len(sp_received) : sp_received[i][1] = sp_received[i][2][1]
  /\ \A i \in 1..Len(sp_destroyed) : Occurrences(sp_sent, sp_destroyed[i]) = 1

\* the message sent in the first generation was never received and was
\* destroyed by the second split; the Channel is empty and its new Sender
\* has not sent yet
C20_Witness ==
  /\ sp_gen = 2 /\ sp_sender /\ sp_receiver
  /\ Len(sp_sent) = 1 /\ sp_sent[1][1] = 1
  /\ sp_received = <<>> /\ sp_destroyed = sp_sent
  /\ ~sp_ready /\ sp_message = Uninit

\* the fields of the split variant's Channel: channel_avoid_borrowing.rs:8-11
SplitChannelFields == {"message", "ready"}

\* C28 as stated: the Channel of the split variant has an in_use flag, and
\* the first step of send is a test-and-set of that flag, which leaves the
\* storage as it is.
C28_SendTestAndSetsInUse ==
  [][\A t \in SplitThreads : \A m \in Msgs :
       SplitSendWrite(t, m) =>
          /\ "in_use" \in SplitChannelFields
          /\ sp_message' = sp_message]_vars

\* C28 as the code has it: the Channel has no in_use flag and send never
\* fails; send takes the one Sender of its generation, so it finds the
\* storage uninitialized, no other send of the generation has started, and
\* no two sends of one generation complete.
C28_OneSendPerGeneration ==
  /\ []("in_use" \notin SplitChannelFields)
  /\ [](\A i, j \in 1..Len(sp_sent) : sp_sent[i][1] = sp_sent[j][1] => i = j)
  /\ [](\A t \in SplitThreads : sp_res[t] # "panic_send")
  /\ [][\A t \in SplitThreads : \A m \in Msgs :
          SplitSendWrite(t, m) =>
             /\ sp_message = Uninit
             /\ \A u \in SplitThreads : sp_pc[u] # "send_store"
             /\ \A i \in 1..Len(sp_sent) : sp_sent[i][1] # sp_gen]_vars

\* one send completed in each of two generations
C28_Witness ==
  /\ Len(sp_sent) = 2 /\ sp_sent[1][1] = 1 /\ sp_sent[2][1] = 2
  /\ ~sp_sender /\ sp_ready

\* ===================================================================
\* spin_lock_main (section_4/spin_lock.rs:88-106)
\* ===================================================================
\* The first spawned thread pushes under the temporary Guard of one
\* statement, the second under a Guard bound to a variable; the main thread
\* locks after the scope has joined both. The number of pushes of each
\* thread is an input: the source is the case m_k = <<1, 2>>, where the
\* first thread pushes 1 and the second pushes 2 then 3.

\* the values a spawned thread pushes, in order: spin_lock.rs:92, 97-98
Batch(w) ==
  IF w = 1 THEN [i \in 1..m_k[1] |-> i]
           ELSE [i \in 1..m_k[2] |-> m_k[1] + i]

\* SpinLock::new(Vec::new()) and the two s.spawn of the scope: spin_lock.rs:89-99
MainSpawn(k1, k2) ==
  /\ m_main = "start"
  /\ m_k' = <<k1, k2>>
  /\ m_pc' = [w \in Workers |-> "lock"]
  /\ m_main' = "scope"
  /\ UNCHANGED <<m_locked, m_vec, m_cnt, m_assert>>
  /\ UNCHANGED <<arcVars, spinVars, chanVars, basicVars, splitVars, parkVars, wpVars, ordVars, ptrVars, sqVars, lzVars>>

\* spin_lock.lock() of a spawned thread, one swap of the loop:
\* spin_lock.rs:92, 96 and 35-42
MainLockSwap(w) ==
  /\ m_pc[w] \in {"lock", "spin"}
  /\ m_locked' = LockSwapStored
  /\ m_pc' = [m_pc EXCEPT ![w] = LockAfterSwap(m_locked)]
  /\ UNCHANGED <<m_vec, m_k, m_cnt, m_main, m_assert>>
  /\ UNCHANGED <<arcVars, spinVars, chanVars, basicVars, splitVars, parkVars, wpVars, ordVars, ptrVars, sqVars, lzVars>>

\* guard.push(..) through DerefMut: spin_lock.rs:92, 97, 98
MainPush(w) ==
  /\ m_pc[w] = "held" /\ m_cnt[w] < m_k[w]
  /\ m_vec' = Append(m_vec, Batch(w)[m_cnt[w] + 1])
  /\ m_cnt' = [m_cnt EXCEPT ![w] = m_cnt[w] + 1]
  /\ UNCHANGED <<m_locked, m_k, m_pc, m_main, m_assert>>
  /\ UNCHANGED <<arcVars, spinVars, chanVars, basicVars, splitVars, parkVars, wpVars, ordVars, ptrVars, sqVars, lzVars>>

\* a thread that takes a new Guard for each push
MainGuardEnds_AfterEachPush(w) == m_cnt[w] >= 1

\* where the Guard of a spawned thread is dropped: at the end of the
\* statement (spin_lock.rs:92) or of the closure (99), after all its pushes
MainGuardEnds(w) == m_cnt[w] = m_k[w]

\* impl Drop for Guard in a spawned thread: spin_lock.rs:82-86
MainGuardDrop(w) ==
  /\ m_pc[w] = "held" /\ MainGuardEnds(w)
  /\ m_locked' = FALSE
  /\ m_pc' = [m_pc EXCEPT ![w] = IF m_cnt[w] = m_k[w] THEN "done" ELSE "lock"]
  /\ UNCHANGED <<m_vec, m_k, m_cnt, m_main, m_assert>>
  /\ UNCHANGED <<arcVars, spinVars, chanVars, basicVars, splitVars, parkVars, wpVars, ordVars, ptrVars, sqVars, lzVars>>

\* the end of thread::scope, which joins the spawned threads: spin_lock.rs:100
MainJoin ==
  /\ m_main = "scope"
  /\ \A w \in Workers : m_pc[w] = "done"
  /\ m_main' = "lock"
  /\ UNCHANGED <<m_locked, m_vec, m_k, m_pc, m_cnt, m_assert>>
  /\ UNCHANGED <<arcVars, spinVars, chanVars, basicVars, splitVars, parkVars, wpVars, ordVars, ptrVars, sqVars, lzVars>>

\* let guard = spin_lock.lock() of the main thread: spin_lock.rs:102
MainThreadLockSwap ==
  /\ m_main \in {"lock", "spin"}
  /\ m_locked' = LockSwapStored
  /\ m_main' = LockAfterSwap(m_locked)
  /\ UNCHANGED <<m_vec, m_k, m_pc, m_cnt, m_assert>>
  /\ UNCHANGED <<arcVars, spinVars, chanVars, basicVars, splitVars, parkVars, wpVars, ordVars, ptrVars, sqVars, lzVars>>

\* the two vectors the assert! accepts: spin_lock.rs:104, [1, 2, 3] and
\* [2, 3, 1] for m_k = <<1, 2>>
Accepted == {Batch(1) \o Batch(2), Batch(2) \o Batch(1)}

\* assert!(guard.as_slice() == [1, 2, 3] || guard.as_slice() == [2, 3, 1]):
\* spin_lock.rs:104
MainAssert ==
  /\ m_main = "held"
  /\ m_assert' = IF m_vec \in Accepted THEN "ok" ELSE "panic"
  /\ m_main' = "asserted"
  /\ UNCHANGED <<m_locked, m_vec, m_k, m_pc, m_cnt>>
  /\ UNCHANGED <<arcVars, spinVars, chanVars, basicVars, splitVars, parkVars, wpVars, ordVars, ptrVars, sqVars, lzVars>>

\* the Guard of the main thread is dropped at the end of the function,
\* also when the assert! unwinds: spin_lock.rs:106
MainThreadGuardDrop ==
  /\ m_main = "asserted"
  /\ m_locked' = FALSE
  /\ m_main' = "done"
  /\ UNCHANGED <<m_vec, m_k, m_pc, m_cnt, m_assert>>
  /\ UNCHANGED <<arcVars, spinVars, chanVars, basicVars, splitVars, parkVars, wpVars, ordVars, ptrVars, sqVars, lzVars>>

NextMain ==
  \/ \E k1, k2 \in 1..MaxPush : MainSpawn(k1, k2)
  \/ \E w \in Workers : MainLockSwap(w) \/ MainPush(w) \/ MainGuardDrop(w)
  \/ MainJoin
  \/ MainThreadLockSwap
  \/ MainAssert
  \/ MainThreadGuardDrop

SpecMain == Init /\ [][NextMain]_vars

\* s is an initial part of r
IsPrefix(s, r) == Len(s) <= Len(r) /\ \A i \in 1..Len(s) : s[i] = r[i]

\* C25: the pushes made under one Guard are not interleaved with another
\* thread's: the vector is at all times an initial part of one thread's
\* pushes followed by the other's, the assert! of the main thread never
\* fails and, for the source's 1 and 2 pushes, the vector the main thread
\* sees is [1, 2, 3] or [2, 3, 1], never [2, 1, 3].
C25_CriticalSectionAtomic ==
  /\ \E r \in Accepted : IsPrefix(m_vec, r)
  /\ m_assert # "panic"
  /\ (m_main \in {"held", "asserted", "done"} /\ m_k = <<1, 2>>) =>
        /\ m_vec \in {<<1, 2, 3>>, <<2, 3, 1>>}
        /\ m_vec # <<2, 1, 3>>

\* the source's case, after the assert!, where the second thread was first
\* and the first thread had to spin
C25_Witness ==
  /\ m_k = <<1, 2>> /\ m_main = "done" /\ m_assert = "ok"
  /\ m_vec = <<2, 3, 1>>

\* ===================================================================
\* Waiting for the message with park / unpark
\* (section_4/channel_blocking.rs:55-78 and 96-108, and the mains of
\* channel_one_shot.rs:70-87 and channel_sender_receiver.rs:70-87)
\* ===================================================================
\* thread::park() returns at once and clears the token when the token is
\* set, blocks otherwise, and may return spuriously; unpark() sets the
\* token. In the "blocking" main the unpark is the last statement of send
\* and the receiver's check is the swap of receive; in the "polling" mains
\* the unpark follows send in the spawned thread and the receiver's check
\* is is_ready, followed by receive.

Modes == {"blocking", "polling"}

\* channel.split() (or channel(), Channel::new()) and s.spawn:
\* channel_blocking.rs:99-102, channel_one_shot.rs:71-77,
\* channel_sender_receiver.rs:72-78
BkSpawn(mode, m) ==
  /\ bk_mode = "-"
  /\ bk_mode' = mode
  /\ bk_msg' = m
  /\ bk_spc' = "write"
  /\ bk_rpc' = "check"
  /\ UNCHANGED <<bk_message, bk_ready, bk_token, bk_ret, bk_waited>>
  /\ UNCHANGED <<arcVars, spinVars, chanVars, basicVars, splitVars, mainVars, wpVars, ordVars, ptrVars, sqVars, lzVars>>

\* send, the write of the storage: channel_blocking.rs:57 (after the swap of
\* in_use in channel_one_shot.rs:26-33, which this one send passes)
BkSendWrite ==
  /\ bk_spc = "write"
  /\ bk_message' = bk_msg
  /\ bk_spc' = "store"
  /\ UNCHANGED <<bk_mode, bk_msg, bk_ready, bk_token, bk_rpc, bk_ret, bk_waited>>
  /\ UNCHANGED <<arcVars, spinVars, chanVars, basicVars, splitVars, mainVars, wpVars, ordVars, ptrVars, sqVars, lzVars>>

\* send, ready.store(true, Release): channel_blocking.rs:58
BkSendStore ==
  /\ bk_spc = "store"
  /\ bk_ready' = TRUE
  /\ bk_spc' = "unpark"
  /\ UNCHANGED <<bk_mode, bk_msg, bk_message, bk_token, bk_rpc, bk_ret, bk_waited>>
  /\ UNCHANGED <<arcVars, spinVars, chanVars, basicVars, splitVars, mainVars, wpVars, ordVars, ptrVars, sqVars, lzVars>>

\* an unpark that wakes the thread only if it is parked at that moment
BkUnpark_NoToken ==
  /\ bk_spc = "unpark"
  /\ bk_token' = (bk_rpc = "parked")
  /\ bk_spc' = "done"
  /\ UNCHANGED <<bk_mode, bk_msg, bk_message, bk_ready, bk_rpc, bk_ret, bk_waited>>
  /\ UNCHANGED <<arcVars, spinVars, chanVars, basicVars, splitVars, mainVars, wpVars, ordVars, ptrVars, sqVars, lzVars>>

\* self.receiving_thread.unpark() / t.unpark(): channel_blocking.rs:59,
\* channel_one_shot.rs:76, channel_sender_receiver.rs:77
BkUnpark ==
  /\ bk_spc = "unpark"
  /\ bk_token' = TRUE
  /\ bk_spc' = "done"
  /\ UNCHANGED <<bk_mode, bk_msg, bk_message, bk_ready, bk_rpc, bk_ret, bk_waited>>
  /\ UNCHANGED <<arcVars, spinVars, chanVars, basicVars, splitVars, mainVars, wpVars, ordVars, ptrVars, sqVars, lzVars>>

\* Receiver::receive, one test of `while !ready.swap(false, Acquire)`:
\* channel_blocking.rs:73
BkReceiveSwap ==
  /\ bk_mode = "blocking" /\ bk_rpc = "check"
  /\ bk_ready' = FALSE
  /\ bk_rpc' = IF bk_ready THEN "read" ELSE "park"
  /\ UNCHANGED <<bk_mode, bk_msg, bk_message, bk_token, bk_spc, bk_ret, bk_waited>>
  /\ UNCHANGED <<arcVars, spinVars, chanVars, basicVars, splitVars, mainVars, wpVars, ordVars, ptrVars, sqVars, lzVars>>

\* one test of `while !channel.is_ready()`: channel_one_shot.rs:79 and
\* 40-42, channel_sender_receiver.rs:80 and 49-51
BkIsReady ==
  /\ bk_mode = "polling" /\ bk_rpc = "check"
  /\ bk_rpc' = IF bk_ready THEN "receive" ELSE "park"
  /\ UNCHANGED <<bk_mode, bk_msg, bk_message, bk_ready, bk_token, bk_spc, bk_ret,
                 bk_waited>>
  /\ UNCHANGED <<arcVars, spinVars, chanVars, basicVars, splitVars, mainVars, wpVars, ordVars, ptrVars, sqVars, lzVars>>

\* receive after the polling loop, the swap of ready and its panic:
\* channel_one_shot.rs:52-56, channel_sender_receiver.rs:53-56
BkPollReceiveSwap ==
  /\ bk_rpc = "receive"
  /\ bk_ready' = FALSE
  /\ bk_rpc' = IF bk_ready THEN "read" ELSE "panic"
  /\ UNCHANGED <<bk_mode, bk_msg, bk_message, bk_token, bk_spc, bk_ret, bk_waited>>
  /\ UNCHANGED <<arcVars, spinVars, chanVars, basicVars, splitVars, mainVars, wpVars, ordVars, ptrVars, sqVars, lzVars>>

\* thread::park() with the token set, at the call or while blocked: returns
\* and clears the token
BkParkToken ==
  /\ bk_rpc \in {"park", "parked"} /\ bk_token
  /\ bk_token' = FALSE
  /\ bk_rpc' = "check"
  /\ UNCHANGED <<bk_mode, bk_msg, bk_message, bk_ready, bk_spc, bk_ret, bk_waited>>
  /\ UNCHANGED <<arcVars, spinVars, chanVars, basicVars, splitVars, mainVars, wpVars, ordVars, ptrVars, sqVars, lzVars>>

\* thread::park() without the token: the thread blocks
BkParkBlock ==
  /\ bk_rpc = "park" /\ ~bk_token
  /\ bk_rpc' = "parked"
  /\ bk_waited' = TRUE
  /\ UNCHANGED <<bk_mode, bk_msg, bk_message, bk_ready, bk_token, bk_spc, bk_ret>>
  /\ UNCHANGED <<arcVars, spinVars, chanVars, basicVars, splitVars, mainVars, wpVars, ordVars, ptrVars, sqVars, lzVars>>

\* thread::park() returns spuriously
BkParkSpurious ==
  /\ bk_rpc = "parked" /\ ~bk_token
  /\ bk_rpc' = "check"
  /\ UNCHANGED <<bk_mode, bk_msg, bk_message, bk_ready, bk_token, bk_spc, bk_ret,
                 bk_waited>>
  /\ UNCHANGED <<arcVars, spinVars, chanVars, basicVars, splitVars, mainVars, wpVars, ordVars, ptrVars, sqVars, lzVars>>

\* receive, assume_init_read: channel_blocking.rs:77,
\* channel_one_shot.rs:58, channel_sender_receiver.rs:58
BkReceiveRead ==
  /\ bk_rpc = "read"
  /\ bk_ret' = bk_message
  /\ bk_rpc' = "done"
  /\ UNCHANGED <<bk_mode, bk_msg, bk_message, bk_ready, bk_token, bk_spc, bk_waited>>
  /\ UNCHANGED <<arcVars, spinVars, chanVars, basicVars, splitVars, mainVars, wpVars, ordVars, ptrVars, sqVars, lzVars>>

\* the steps of the spawned thread
BkSenderStep == BkSendWrite \/ BkSendStore \/ BkUnpark

\* the steps of the receiving thread while it runs
BkReceiverStep ==
  BkReceiveSwap \/ BkIsReady \/ BkPollReceiveSwap \/ BkParkToken \/ BkReceiveRead

NextPark ==
  \/ \E mode \in Modes : \E m \in Msgs : BkSpawn(mode, m)
  \/ BkSenderStep
  \/ BkReceiverStep
  \/ BkParkBlock
  \/ BkParkSpurious

SpecPark == Init /\ [][NextPark]_vars

\* Weak fairness: the spawned thread runs its send and unpark, and the
\* receiving thread runs whenever it is not blocked in park(); a spurious
\* return of park() may happen but is never owed.
SpecParkFair ==
  /\ SpecPark
  /\ WF_vars(BkSenderStep)
  /\ WF_vars(BkReceiverStep)

\* C29: the waiting receiver never misses the message: once the sender is
\* spawned the receiver eventually returns the message that was sent,
\* whatever the interleaving of the ready store, the unpark, the check and
\* the park; and receive reads and returns only after send's store of
\* ready, and never panics.
C29_ReceiverGetsMessage ==
  /\ (bk_mode # "-") ~> (bk_rpc = "done" /\ bk_ret = bk_msg)
  /\ [](bk_rpc \in {"read", "done"} => bk_spc \in {"unpark", "done"})
  /\ [](bk_rpc # "panic")

\* the blocking receive returned the message after its park() had blocked
C29_Witness ==
  /\ bk_mode = "blocking" /\ bk_waited
  /\ bk_rpc = "done" /\ bk_ret = bk_msg /\ bk_spc = "done"

\* ===================================================================
\* Arc built on an inner Weak (section_5/arc_weak_pointers.rs)
\* ===================================================================
\* Every Arc holds a Weak, so weak_ref_count counts the Arcs and the
\* standalone Weaks, and strong_ref_count counts the Arcs.

WpLiveArcs == {h \in Handles : wp_hkind[h] = "arc"}
WpLiveWeaks == {h \in Handles : wp_hkind[h] = "weak"}
WpFreeSlots == {h \in Handles : wp_hkind[h] = "none"}
\* the slot in which a call puts the handle it returns
WpFreeSlot == CHOOSE h \in WpFreeSlots : \A g \in WpFreeSlots : h <= g
\* room for the handle a starting call may return
WpCanCreate ==
  Cardinality(WpFreeSlots) >
    Cardinality({t \in Threads : wp_pc[t] \in {"clone_strong", "up_loop", "up_clone"}})

\* &self: no call holds the handle by &mut (get_mut) and it is not dropped
WpSharedOk(h) ==
  \A t \in Threads : wp_h[t] = h => wp_pc[t] \in {"clone_strong", "up_loop", "up_clone"}
\* &mut self / self by value: no call borrows the handle at all
WpExclOk(h) == \A t \in Threads : wp_h[t] # h

WpIdle(t) == ~wp_aborted /\ wp_pc[t] = "idle"

\* leave a call: back to idle with result r
WpReturn(t, r) ==
  /\ wp_pc' = [wp_pc EXCEPT ![t] = "idle"]
  /\ wp_h' = [wp_h EXCEPT ![t] = 0]
  /\ wp_n' = [wp_n EXCEPT ![t] = 0]
  /\ wp_ret' = [wp_ret EXCEPT ![t] = r]

\* impl Clone for Weak, called on a Weak or through Arc::downgrade:
\* arc_weak_pointers.rs:149-157, 96-98
WpWeakClone(t, h) ==
  /\ WpIdle(t) /\ wp_hkind[h] \in {"arc", "weak"} /\ WpSharedOk(h) /\ WpCanCreate
  /\ weak_ref_count' = Inc(weak_ref_count)
  /\ IF weak_ref_count > HalfMax
       THEN wp_aborted' = TRUE /\ UNCHANGED wp_hkind
       ELSE /\ wp_hkind' = [wp_hkind EXCEPT ![WpFreeSlot] = "weak"]
            /\ UNCHANGED wp_aborted
  /\ wp_ret' = [wp_ret EXCEPT ![t] = "-"]
  /\ UNCHANGED <<strong_ref_count, wp_data, wp_frees, wp_pc, wp_h, wp_n, wp_val,
                 wp_others, wp_aliased>>
  /\ UNCHANGED <<arcVars, spinVars, chanVars, basicVars, splitVars, mainVars, parkVars, ordVars, ptrVars, sqVars, lzVars>>

\* impl Clone for Arc, self.weak.clone(): arc_weak_pointers.rs:161
WpArcCloneWeak(t, h) ==
  /\ WpIdle(t) /\ wp_hkind[h] = "arc" /\ WpSharedOk(h) /\ WpCanCreate
  /\ weak_ref_count' = Inc(weak_ref_count)
  /\ IF weak_ref_count > HalfMax
       THEN wp_aborted' = TRUE /\ UNCHANGED <<wp_pc, wp_h>>
       ELSE /\ wp_pc' = [wp_pc EXCEPT ![t] = "clone_strong"]
            /\ wp_h' = [wp_h EXCEPT ![t] = h]
            /\ UNCHANGED wp_aborted
  /\ wp_ret' = [wp_ret EXCEPT ![t] = "-"]
  /\ UNCHANGED <<strong_ref_count, wp_data, wp_frees, wp_hkind, wp_n, wp_val,
                 wp_others, wp_aliased>>
  /\ UNCHANGED <<arcVars, spinVars, chanVars, basicVars, splitVars, mainVars, parkVars, ordVars, ptrVars, sqVars, lzVars>>

\* impl Clone for Arc, the fetch_add of strong_ref_count: arc_weak_pointers.rs:162-166
WpArcCloneStrong(t) ==
  /\ ~wp_aborted /\ wp_pc[t] = "clone_strong"
  /\ strong_ref_count' = Inc(strong_ref_count)
  /\ IF strong_ref_count > HalfMax
       THEN wp_aborted' = TRUE /\ UNCHANGED <<wp_hkind, wp_pc, wp_h, wp_n, wp_ret>>
       ELSE /\ wp_hkind' = [wp_hkind EXCEPT ![WpFreeSlot] = "arc"]
            /\ WpReturn(t, "-")
            /\ UNCHANGED wp_aborted
  /\ UNCHANGED <<weak_ref_count, wp_data, wp_frees, wp_val, wp_others, wp_aliased>>
  /\ UNCHANGED <<arcVars, spinVars, chanVars, basicVars, splitVars, mainVars, parkVars, ordVars, ptrVars, sqVars, lzVars>>

\* Weak::upgrade, the first load: arc_weak_pointers.rs:112
WpUpgradeLoad(t, h) ==
  /\ WpIdle(t) /\ wp_hkind[h] = "weak" /\ WpSharedOk(h) /\ WpCanCreate
  /\ wp_n' = [wp_n EXCEPT ![t] = strong_ref_count]
  /\ wp_pc' = [wp_pc EXCEPT ![t] = "up_loop"]
  /\ wp_h' = [wp_h EXCEPT ![t] = h]
  /\ wp_ret' = [wp_ret EXCEPT ![t] = "-"]
  /\ UNCHANGED <<strong_ref_count, weak_ref_count, wp_data, wp_frees, wp_aborted,
                 wp_hkind, wp_val, wp_others, wp_aliased>>
  /\ UNCHANGED <<arcVars, spinVars, chanVars, basicVars, splitVars, mainVars, parkVars, ordVars, ptrVars, sqVars, lzVars>>

\* Weak::upgrade, one turn of the loop: arc_weak_pointers.rs:113-127
WpUpgradeLoop(t) ==
  /\ ~wp_aborted /\ wp_pc[t] = "up_loop"
  /\ LET n == wp_n[t] IN
     IF n = 0
       THEN /\ WpReturn(t, "up_None")
            /\ UNCHANGED strong_ref_count
       ELSE IF n > HalfMax
       THEN \* assert!(node <= usize::MAX >> 1) panics
            /\ WpReturn(t, "panic")
            /\ UNCHANGED strong_ref_count
       ELSE IF strong_ref_count = n
       THEN /\ strong_ref_count' = n + 1
            /\ wp_pc' = [wp_pc EXCEPT ![t] = "up_clone"]
            /\ UNCHANGED <<wp_h, wp_n, wp_ret>>
       ELSE /\ wp_n' = [wp_n EXCEPT ![t] = strong_ref_count]
            /\ UNCHANGED <<strong_ref_count, wp_pc, wp_h, wp_ret>>
  /\ UNCHANGED <<weak_ref_count, wp_data, wp_frees, wp_aborted, wp_hkind, wp_val,
                 wp_others, wp_aliased>>
  /\ UNCHANGED <<arcVars, spinVars, chanVars, basicVars, splitVars, mainVars, parkVars, ordVars, ptrVars, sqVars, lzVars>>

\* Weak::upgrade, Some(Arc { weak: self.clone() }): arc_weak_pointers.rs:129
WpUpgradeClone(t) ==
  /\ ~wp_aborted /\ wp_pc[t] = "up_clone"
  /\ weak_ref_count' = Inc(weak_ref_count)
  /\ IF weak_ref_count > HalfMax
       THEN wp_aborted' = TRUE /\ UNCHANGED <<wp_hkind, wp_pc, wp_h, wp_n, wp_ret>>
       ELSE /\ wp_hkind' = [wp_hkind EXCEPT ![WpFreeSlot] = "arc"]
            /\ WpReturn(t, "up_Some")
            /\ UNCHANGED wp_aborted
  /\ UNCHANGED <<strong_ref_count, wp_data, wp_frees, wp_val, wp_others, wp_aliased>>
  /\ UNCHANGED <<arcVars, spinVars, chanVars, basicVars, splitVars, mainVars, parkVars, ordVars, ptrVars, sqVars, lzVars>>

\* a get_mut that also looks at weak_ref_count
WpGetMutRefuses_AnyOther == strong_ref_count > 1 \/ weak_ref_count > 1

\* Arc::get_mut, the test that returns None: arc_weak_pointers.rs:80-82
WpGetMutRefuses == strong_ref_count > 1

\* Arc::get_mut: arc_weak_pointers.rs:79-90. With Some(&mut T) the caller
\* holds the mutable reference until WpGetMutRelease.
WpGetMut(t, h) ==
  /\ WpIdle(t) /\ wp_hkind[h] = "arc" /\ WpExclOk(h)
  /\ IF WpGetMutRefuses
       THEN /\ WpReturn(t, "gm_None")
            /\ UNCHANGED wp_others
       ELSE /\ wp_pc' = [wp_pc EXCEPT ![t] = "gm_some"]
            /\ wp_h' = [wp_h EXCEPT ![t] = h]
            /\ wp_ret' = [wp_ret EXCEPT ![t] = "-"]
            /\ wp_others' = [wp_others EXCEPT ![t] = (WpLiveArcs \cup WpLiveWeaks) \ {h}]
            /\ UNCHANGED wp_n
  /\ UNCHANGED <<strong_ref_count, weak_ref_count, wp_data, wp_frees, wp_aborted,
                 wp_hkind, wp_val, wp_aliased>>
  /\ UNCHANGED <<arcVars, spinVars, chanVars, basicVars, splitVars, mainVars, parkVars, ordVars, ptrVars, sqVars, lzVars>>

\* the &mut T returned by get_mut goes out of use
WpGetMutRelease(t) ==
  /\ ~wp_aborted /\ wp_pc[t] = "gm_some"
  /\ WpReturn(t, "-")
  /\ wp_others' = [wp_others EXCEPT ![t] = {}]
  /\ UNCHANGED <<strong_ref_count, weak_ref_count, wp_data, wp_frees, wp_aborted,
                 wp_hkind, wp_val, wp_aliased>>
  /\ UNCHANGED <<arcVars, spinVars, chanVars, basicVars, splitVars, mainVars, parkVars, ordVars, ptrVars, sqVars, lzVars>>

\* impl Deref for Arc: arc_weak_pointers.rs:134-141. The read of the payload
\* through an Arc other than the one a live &mut T was taken from.
WpDeref(t, h) ==
  /\ WpIdle(t) /\ wp_hkind[h] = "arc" /\ WpSharedOk(h)
  /\ wp_ret' = [wp_ret EXCEPT ![t] = IF wp_data = "Some" THEN "deref" ELSE "panic"]
  /\ wp_aliased' = (wp_aliased \/ \E u \in Threads : wp_pc[u] = "gm_some")
  /\ UNCHANGED <<strong_ref_count, weak_ref_count, wp_data, wp_frees, wp_aborted,
                 wp_hkind, wp_pc, wp_h, wp_n, wp_val, wp_others>>
  /\ UNCHANGED <<arcVars, spinVars, chanVars, basicVars, splitVars, mainVars, parkVars, ordVars, ptrVars, sqVars, lzVars>>

\* Arc::strong_count: arc_weak_pointers.rs:68-76
WpStrongCount(t, h) ==
  /\ WpIdle(t) /\ wp_hkind[h] = "arc" /\ WpSharedOk(h)
  /\ wp_val' = [wp_val EXCEPT ![t] = strong_ref_count]
  /\ wp_ret' = [wp_ret EXCEPT ![t] = "strong"]
  /\ UNCHANGED <<strong_ref_count, weak_ref_count, wp_data, wp_frees, wp_aborted,
                 wp_hkind, wp_pc, wp_h, wp_n, wp_others, wp_aliased>>
  /\ UNCHANGED <<arcVars, spinVars, chanVars, basicVars, splitVars, mainVars, parkVars, ordVars, ptrVars, sqVars, lzVars>>

\* Arc::weak_count: arc_weak_pointers.rs:57-65
WpWeakCount(t, h) ==
  /\ WpIdle(t) /\ wp_hkind[h] = "arc" /\ WpSharedOk(h)
  /\ wp_val' = [wp_val EXCEPT ![t] = weak_ref_count]
  /\ wp_ret' = [wp_ret EXCEPT ![t] = "weak"]
  /\ UNCHANGED <<strong_ref_count, weak_ref_count, wp_data, wp_frees, wp_aborted,
                 wp_hkind, wp_pc, wp_h, wp_n, wp_others, wp_aliased>>
  /\ UNCHANGED <<arcVars, spinVars, chanVars, basicVars, splitVars, mainVars, parkVars, ordVars, ptrVars, sqVars, lzVars>>

\* impl Drop for Arc, the fetch_sub of strong_ref_count:
\* arc_weak_pointers.rs:187-193. The handle is consumed.
WpArcDropSub(t, h) ==
  /\ WpIdle(t) /\ wp_hkind[h] = "arc" /\ WpExclOk(h)
  /\ strong_ref_count' = Dec(strong_ref_count)
  /\ wp_hkind' = [wp_hkind EXCEPT ![h] = "none"]
  /\ wp_pc' = [wp_pc EXCEPT ![t] = IF strong_ref_count = 1 THEN "drop_data" ELSE "drop_weak"]
  /\ wp_ret' = [wp_ret EXCEPT ![t] = "-"]
  /\ UNCHANGED <<weak_ref_count, wp_data, wp_frees, wp_aborted, wp_h, wp_n, wp_val,
                 wp_others, wp_aliased>>
  /\ UNCHANGED <<arcVars, spinVars, chanVars, basicVars, splitVars, mainVars, parkVars, ordVars, ptrVars, sqVars, lzVars>>

\* impl Drop for Arc, (*ptr) = None: arc_weak_pointers.rs:194-198
WpArcDropData(t) ==
  /\ ~wp_aborted /\ wp_pc[t] = "drop_data"
  /\ wp_data' = "None"
  /\ wp_pc' = [wp_pc EXCEPT ![t] = "drop_weak"]
  /\ UNCHANGED <<strong_ref_count, weak_ref_count, wp_frees, wp_aborted, wp_hkind,
                 wp_h, wp_n, wp_ret, wp_val, wp_others, wp_aliased>>
  /\ UNCHANGED <<arcVars, spinVars, chanVars, basicVars, splitVars, mainVars, parkVars, ordVars, ptrVars, sqVars, lzVars>>

\* a drop of an Arc that forgets the Arc's inner Weak
WpArcDropWeak_Forget(t) ==
  /\ ~wp_aborted /\ wp_pc[t] = "drop_weak"
  /\ WpReturn(t, "-")
  /\ UNCHANGED <<strong_ref_count, weak_ref_count, wp_data, wp_frees, wp_aborted,
                 wp_hkind, wp_val, wp_others, wp_aliased>>
  /\ UNCHANGED <<arcVars, spinVars, chanVars, basicVars, splitVars, mainVars, parkVars, ordVars, ptrVars, sqVars, lzVars>>

\* the field `weak` of the dropped Arc is dropped after Drop for Arc:
\* impl Drop for Weak, the fetch_sub, arc_weak_pointers.rs:175
WpArcDropWeak(t) ==
  /\ ~wp_aborted /\ wp_pc[t] = "drop_weak"
  /\ weak_ref_count' = Dec(weak_ref_count)
  /\ IF weak_ref_count = 1
       THEN /\ wp_pc' = [wp_pc EXCEPT ![t] = "drop_free"]
            /\ UNCHANGED <<wp_h, wp_n, wp_ret>>
       ELSE WpReturn(t, "-")
  /\ UNCHANGED <<strong_ref_count, wp_data, wp_frees, wp_aborted, wp_hkind, wp_val,
                 wp_others, wp_aliased>>
  /\ UNCHANGED <<arcVars, spinVars, chanVars, basicVars, splitVars, mainVars, parkVars, ordVars, ptrVars, sqVars, lzVars>>

\* impl Drop for Weak, the fetch_sub: arc_weak_pointers.rs:173-175.
\* The handle is consumed.
WpWeakDropSub(t, h) ==
  /\ WpIdle(t) /\ wp_hkind[h] = "weak" /\ WpExclOk(h)
  /\ weak_ref_count' = Dec(weak_ref_count)
  /\ wp_hkind' = [wp_hkind EXCEPT ![h] = "none"]
  /\ IF weak_ref_count = 1
       THEN wp_pc' = [wp_pc EXCEPT ![t] = "drop_free"]
       ELSE UNCHANGED wp_pc
  /\ wp_ret' = [wp_ret EXCEPT ![t] = "-"]
  /\ UNCHANGED <<strong_ref_count, wp_data, wp_frees, wp_aborted, wp_h, wp_n, wp_val,
                 wp_others, wp_aliased>>
  /\ UNCHANGED <<arcVars, spinVars, chanVars, basicVars, splitVars, mainVars, parkVars, ordVars, ptrVars, sqVars, lzVars>>

\* impl Drop for Weak, drop(Box::from_raw(..)): arc_weak_pointers.rs:176-177
WpDropFree(t) ==
  /\ ~wp_aborted /\ wp_pc[t] = "drop_free"
  /\ wp_frees' = wp_frees + 1
  /\ WpReturn(t, "-")
  /\ UNCHANGED <<strong_ref_count, weak_ref_count, wp_data, wp_aborted, wp_hkind,
                 wp_val, wp_others, wp_aliased>>
  /\ UNCHANGED <<arcVars, spinVars, chanVars, basicVars, splitVars, mainVars, parkVars, ordVars, ptrVars, sqVars, lzVars>>

NextWp ==
  \E t \in Threads :
    \/ \E h \in Handles :
         \/ WpWeakClone(t, h)
         \/ WpArcCloneWeak(t, h)
         \/ WpUpgradeLoad(t, h)
         \/ WpGetMut(t, h)
         \/ WpDeref(t, h)
         \/ WpStrongCount(t, h)
         \/ WpWeakCount(t, h)
         \/ WpArcDropSub(t, h)
         \/ WpWeakDropSub(t, h)
    \/ WpArcCloneStrong(t)
    \/ WpUpgradeLoop(t)
    \/ WpUpgradeClone(t)
    \/ WpGetMutRelease(t)
    \/ WpArcDropData(t)
    \/ WpArcDropWeak(t)
    \/ WpDropFree(t)

SpecWp == Init /\ [][NextWp]_vars

\* C30: get_mut returns Some(&mut T) only when no other Arc and no Weak to
\* the same ArcData is live; in particular it returns None while a Weak
\* obtained by downgrade exists, so that the payload is never read through
\* another Arc, obtained by a concurrent upgrade, while the mutable
\* reference is held.
C30_GetMutSomeOnlyWhenSole ==
  /\ \A t \in Threads : wp_pc[t] = "gm_some" => wp_others[t] = {}
  /\ ~wp_aliased

\* no call of the inner-Weak Arc is in progress
WpQuiet == \A t \in Threads : wp_pc[t] = "idle"

\* C31: between calls strong_count() is the number of live Arcs and
\* weak_count() the number of live Arcs plus the number of live standalone
\* Weaks, which is what the two calls return; the ArcData is freed once,
\* by the drop that brought weak_ref_count to 0, and is freed when all
\* handles are gone.
C31_CountsAreLiveHandles ==
  /\ [](WpQuiet =>
          /\ strong_ref_count = Cardinality(WpLiveArcs)
          /\ weak_ref_count = Cardinality(WpLiveArcs) + Cardinality(WpLiveWeaks)
          /\ wp_frees = (IF weak_ref_count = 0 THEN 1 ELSE 0))
  /\ [][/\ \A t \in Threads : \A h \in Handles :
            /\ (WpStrongCount(t, h) /\ WpQuiet) =>
                  wp_val'[t] = Cardinality(WpLiveArcs)
            /\ (WpWeakCount(t, h) /\ WpQuiet) =>
                  wp_val'[t] = Cardinality(WpLiveArcs) + Cardinality(WpLiveWeaks)
        /\ wp_frees' # wp_frees => (wp_frees = 0 /\ weak_ref_count = 0)]_vars

\* weak_count() returned 2 for one Arc and one downgraded Weak
C31_Witness ==
  /\ WpQuiet
  /\ Cardinality(WpLiveArcs) = 1 /\ Cardinality(WpLiveWeaks) = 1
  /\ \E t \in Threads : wp_ret[t] = "weak" /\ wp_val[t] = 2

\* ===================================================================
\* The orderings of the Drop impls (section_5/arc_basic.rs,
\* section_5/arc_weak_pointers.rs, section_5/arc_strong_and_weak.rs)
\* ===================================================================

\* the five Drop impls: of the Arc of arc_basic, of the Weak and the Arc of
\* arc_weak_pointers, of the Weak and the Arc of arc_strong_and_weak
DropSites == {"basic_arc", "wp_weak", "wp_arc", "sw_weak", "sw_arc"}

\* the ordering of the fetch_sub of each Drop impl: arc_basic.rs:117,
\* arc_weak_pointers.rs:175 and :191, arc_strong_and_weak.rs:158 and :179
SubOrdering(site) ==
  CASE site = "basic_arc" -> "Relaxed"
    [] site = "wp_weak" -> "Relaxed"
    [] site = "wp_arc" -> "Relaxed"
    [] site = "sw_weak" -> "Release"
    [] site = "sw_arc" -> "Release"

\* the ordering of the fence each Drop impl issues when its fetch_sub
\* returned 1: arc_basic.rs:118, arc_weak_pointers.rs:176 and :194,
\* arc_strong_and_weak.rs:159 and :180
FenceOrdering(site) ==
  CASE site = "basic_arc" -> "Acquire"
    [] site = "wp_weak" -> "Acquire"
    [] site = "wp_arc" -> "Acquire"
    [] site = "sw_weak" -> "Acquire"
    [] site = "sw_arc" -> "Acquire"

\* NDroppers threads are each given one handle of the same allocation, of
\* the kind whose Drop impl is `site`; the counter counts them.
OrdSpawn(site) ==
  /\ o_site = "none"
  /\ o_site' = site
  /\ o_cnt' = NDroppers
  /\ o_pc' = [t \in Droppers |-> "held"]
  /\ UNCHANGED <<o_cview, o_tview, o_pend, o_used, o_race>>
  /\ UNCHANGED <<arcVars, spinVars, chanVars, basicVars, splitVars, mainVars, parkVars, wpVars, ptrVars, sqVars, lzVars>>

\* the thread uses what the counter protects through its handle: the payload
\* (Deref) for an Arc, the ArcData (data()) for a Weak
OrdUse(t) ==
  /\ o_pc[t] = "held" /\ t \notin o_used
  /\ o_used' = o_used \cup {t}
  /\ o_tview' = [o_tview EXCEPT ![t] = @ \cup {t}]
  /\ UNCHANGED <<o_site, o_cnt, o_cview, o_pend, o_pc, o_race>>
  /\ UNCHANGED <<arcVars, spinVars, chanVars, basicVars, splitVars, mainVars, parkVars, wpVars, ptrVars, sqVars, lzVars>>

\* what a read-modify-write of the given ordering by thread t leaves for
\* later acquirers of the counter: a release adds what happens before it, a
\* relaxed one only continues the release sequence it reads from
ViewAfterSub(ord, t) == IF ord = "Release" THEN o_cview \cup o_tview[t] ELSE o_cview

\* the fetch_sub(1, ..) of the Drop impl. It reads the counter's latest
\* value; being no acquire, what that value carries becomes visible to the
\* thread only at a later acquire fence.
OrdSub(t) ==
  /\ o_pc[t] = "held"
  /\ o_cnt' = o_cnt - 1
  /\ o_cview' = ViewAfterSub(SubOrdering(o_site), t)
  /\ o_pend' = [o_pend EXCEPT ![t] = o_cview]
  /\ o_pc' = [o_pc EXCEPT ![t] = IF o_cnt = 1 THEN "fence" ELSE "done"]
  /\ UNCHANGED <<o_site, o_tview, o_used, o_race>>
  /\ UNCHANGED <<arcVars, spinVars, chanVars, basicVars, splitVars, mainVars, parkVars, wpVars, ptrVars, sqVars, lzVars>>

\* fence(Ordering::Acquire) of the thread whose fetch_sub returned 1
OrdFence(t) ==
  /\ o_pc[t] = "fence"
  /\ o_tview' = [o_tview EXCEPT ![t] =
                   IF FenceOrdering(o_site) = "Acquire" THEN @ \cup o_pend[t] ELSE @]
  /\ o_pc' = [o_pc EXCEPT ![t] = "destroy"]
  /\ UNCHANGED <<o_site, o_cnt, o_cview, o_pend, o_used, o_race>>
  /\ UNCHANGED <<arcVars, spinVars, chanVars, basicVars, splitVars, mainVars, parkVars, wpVars, ptrVars, sqVars, lzVars>>

\* the destruction: Box::from_raw / (*ptr) = None / ManuallyDrop::drop. It
\* is a data race with every use that does not happen before it.
OrdDestroy(t) ==
  /\ o_pc[t] = "destroy"
  /\ o_race' = (o_race \/ ~(o_used \subseteq o_tview[t]))
  /\ o_pc' = [o_pc EXCEPT ![t] = "destroyed"]
  /\ UNCHANGED <<o_site, o_cnt, o_cview, o_tview, o_pend, o_used>>
  /\ UNCHANGED <<arcVars, spinVars, chanVars, basicVars, splitVars, mainVars, parkVars, wpVars, ptrVars, sqVars, lzVars>>

NextOrd ==
  \/ \E site \in DropSites : OrdSpawn(site)
  \/ \E t \in Droppers :
       \/ OrdUse(t)
       \/ OrdSub(t)
       \/ OrdFence(t)
       \/ OrdDestroy(t)

SpecOrd == Init /\ [][NextOrd]_vars

\* C35: in every Drop impl the decrement is a release and the fence of the
\* destroying thread an acquire, so that every use of the payload or of the
\* block through a handle dropped earlier happens before the destruction.
C35_ReleaseDecrementAcquireFence ==
  /\ [](o_site # "none" =>
          (SubOrdering(o_site) = "Release" /\ FenceOrdering(o_site) = "Acquire"))
  /\ [](~o_race)

\* the two Drop impls of arc_strong_and_weak.rs, whose fetch_sub is a
\* release, order every use before the destruction
C35_ReleaseSitesOrdered ==
  [](o_site \in {"sw_weak", "sw_arc"} => ~o_race)

\* an Arc of arc_basic was used and dropped by one thread and the ArcData
\* freed by another, after its fence, without the use happening before
C35_Witness ==
  /\ o_site = "basic_arc" /\ o_race
  /\ \E t, u \in Droppers : t # u /\ o_pc[t] = "destroyed" /\ u \in o_used

\* ===================================================================
\* get_pointer_data_lazy_init (section_3/lazy_init_pointer_redirection.rs)
\* ===================================================================

\* a compare_exchange that stores the new pointer whatever PTR holds
LazyPtrCas_Store(t) ==
  /\ lp_pc[t] = "cas"
  /\ PTR' = lp_p[t]
  /\ lp_changes' = lp_changes + 1
  /\ lp_pc' = [lp_pc EXCEPT ![t] = "ret"]
  /\ UNCHANGED <<lp_p, lp_e, lp_ret, lp_live, lp_freedBy>>
  /\ UNCHANGED <<arcVars, spinVars, chanVars, basicVars, splitVars, mainVars, parkVars, wpVars, ordVars, sqVars, lzVars>>

\* let mut p = PTR.load(Acquire); if p.is_null():
\* lazy_init_pointer_redirection.rs:32-33
LazyPtrLoad(t) ==
  /\ lp_pc[t] = "idle"
  /\ lp_p' = [lp_p EXCEPT ![t] = PTR]
  /\ lp_e' = [lp_e EXCEPT ![t] = 0]
  /\ lp_pc' = [lp_pc EXCEPT ![t] = IF PTR = 0 THEN "alloc" ELSE "ret"]
  /\ UNCHANGED <<PTR, lp_ret, lp_live, lp_freedBy, lp_changes>>
  /\ UNCHANGED <<arcVars, spinVars, chanVars, basicVars, splitVars, mainVars, parkVars, wpVars, ordVars, sqVars, lzVars>>

\* p = Box::into_raw(Box::new(generate_date())):
\* lazy_init_pointer_redirection.rs:34. The allocation is named after the
\* thread: a thread allocates only when it loaded null, and PTR is non-null
\* from its compare_exchange on, so it allocates at most once.
LazyPtrAlloc(t) ==
  /\ lp_pc[t] = "alloc"
  /\ lp_p' = [lp_p EXCEPT ![t] = t]
  /\ lp_live' = lp_live \cup {t}
  /\ lp_pc' = [lp_pc EXCEPT ![t] = "cas"]
  /\ UNCHANGED <<PTR, lp_e, lp_ret, lp_freedBy, lp_changes>>
  /\ UNCHANGED <<arcVars, spinVars, chanVars, basicVars, splitVars, mainVars, parkVars, wpVars, ordVars, sqVars, lzVars>>

\* PTR.compare_exchange(ptr::null_mut(), p, Release, Acquire):
\* lazy_init_pointer_redirection.rs:35-37
LazyPtrCas(t) ==
  /\ lp_pc[t] = "cas"
  /\ IF PTR = 0
       THEN /\ PTR' = lp_p[t]
            /\ lp_changes' = lp_changes + 1
            /\ lp_pc' = [lp_pc EXCEPT ![t] = "ret"]
            /\ UNCHANGED lp_e
       ELSE /\ lp_e' = [lp_e EXCEPT ![t] = PTR]
            /\ lp_pc' = [lp_pc EXCEPT ![t] = "free"]
            /\ UNCHANGED <<PTR, lp_changes>>
  /\ UNCHANGED <<lp_p, lp_ret, lp_live, lp_freedBy>>
  /\ UNCHANGED <<arcVars, spinVars, chanVars, basicVars, splitVars, mainVars, parkVars, wpVars, ordVars, sqVars, lzVars>>

\* drop(unsafe { Box::from_raw(p) }); p = e:
\* lazy_init_pointer_redirection.rs:39-40
LazyPtrFree(t) ==
  /\ lp_pc[t] = "free"
  /\ lp_live' = lp_live \ {lp_p[t]}
  /\ lp_freedBy' = [lp_freedBy EXCEPT ![lp_p[t]] = t]
  /\ lp_p' = [lp_p EXCEPT ![t] = lp_e[t]]
  /\ lp_pc' = [lp_pc EXCEPT ![t] = "ret"]
  /\ UNCHANGED <<PTR, lp_e, lp_ret, lp_changes>>
  /\ UNCHANGED <<arcVars, spinVars, chanVars, basicVars, splitVars, mainVars, parkVars, wpVars, ordVars, sqVars, lzVars>>

\* return unsafe { &*p }: lazy_init_pointer_redirection.rs:45
LazyPtrReturn(t) ==
  /\ lp_pc[t] = "ret"
  /\ lp_ret' = [lp_ret EXCEPT ![t] = lp_p[t]]
  /\ lp_pc' = [lp_pc EXCEPT ![t] = "idle"]
  /\ UNCHANGED <<PTR, lp_p, lp_e, lp_live, lp_freedBy, lp_changes>>
  /\ UNCHANGED <<arcVars, spinVars, chanVars, basicVars, splitVars, mainVars, parkVars, wpVars, ordVars, sqVars, lzVars>>

NextPtr ==
  \E t \in PtrThreads :
    \/ LazyPtrLoad(t)
    \/ LazyPtrAlloc(t)
    \/ LazyPtrCas(t)
    \/ LazyPtrFree(t)
    \/ LazyPtrReturn(t)

SpecPtr == Init /\ [][NextPtr]_vars

\* C36: every call returns the pointer PTR holds, which is non-null and
\* points to an allocation that is not freed; PTR changes once, from null;
\* an allocation that is not the one in PTR is freed by the thread that made
\* it before that thread's call returns, and is returned by no call.
C36_OnePointerForAll ==
  /\ [](\A t \in PtrThreads :
          lp_ret[t] # -1 => (lp_ret[t] # 0 /\ lp_ret[t] = PTR /\ lp_ret[t] \in lp_live))
  /\ [](lp_changes <= 1)
  /\ [][PTR' # PTR => (PTR = 0 /\ PTR' # 0)]_vars
  /\ [](\A a \in PtrThreads :
          /\ lp_freedBy[a] # 0 =>
               (lp_freedBy[a] = a /\ a # PTR /\ \A t \in PtrThreads : lp_ret[t] # a)
          /\ (a \in lp_live /\ a # PTR) => lp_pc[a] \in {"cas", "free"})

\* the three threads raced: each allocated, one installed its pointer, the
\* other two freed theirs, and all three calls returned the installed one
C36_Witness ==
  /\ PTR # 0
  /\ \A t \in PtrThreads : lp_pc[t] = "idle" /\ lp_ret[t] = PTR
  /\ \A a \in PtrThreads \ {PTR} : lp_freedBy[a] = a
  /\ lp_live = {PTR}

\* ===================================================================
\* seq_cst_ordering (section_3/seqcst_ordering.rs)
\* ===================================================================

SqThreads == {"a", "b"}
\* the flag a thread loads: B for a, A for b
SqOther(th) == IF th = "a" THEN B ELSE A

\* let a = thread::spawn(..): seqcst_ordering.rs:42. The function is pub and
\* may be called again once it returned; A, B and S are statics and keep
\* their values.
SqSpawnA ==
  /\ sq_main = "idle" /\ sq_calls < MaxSeqCalls
  /\ sq_pc' = [sq_pc EXCEPT !["a"] = "store"]
  /\ sq_main' = "spawn_b"
  /\ UNCHANGED <<A, B, S, sq_calls, sq_race, sq_out>>
  /\ UNCHANGED <<arcVars, spinVars, chanVars, basicVars, splitVars, mainVars, parkVars, wpVars, ordVars, ptrVars, lzVars>>

\* let b = thread::spawn(..): seqcst_ordering.rs:51
SqSpawnB ==
  /\ sq_main = "spawn_b"
  /\ sq_pc' = [sq_pc EXCEPT !["b"] = "store"]
  /\ sq_main' = "join_a"
  /\ UNCHANGED <<A, B, S, sq_calls, sq_race, sq_out>>
  /\ UNCHANGED <<arcVars, spinVars, chanVars, basicVars, splitVars, mainVars, parkVars, wpVars, ordVars, ptrVars, lzVars>>

\* A.store(true, SeqCst) / B.store(true, SeqCst): seqcst_ordering.rs:43, 52
SqStore(th) ==
  /\ sq_pc[th] = "store"
  /\ A' = (A \/ th = "a")
  /\ B' = (B \/ th = "b")
  /\ sq_pc' = [sq_pc EXCEPT ![th] = "load"]
  /\ UNCHANGED <<S, sq_main, sq_calls, sq_race, sq_out>>
  /\ UNCHANGED <<arcVars, spinVars, chanVars, basicVars, splitVars, mainVars, parkVars, wpVars, ordVars, ptrVars, lzVars>>

\* a load that does not see the other thread's store
SqLoad_Stale(th) ==
  /\ sq_pc[th] = "load"
  /\ sq_pc' = [sq_pc EXCEPT ![th] = "push"]
  /\ UNCHANGED <<A, B, S, sq_main, sq_calls, sq_race, sq_out>>
  /\ UNCHANGED <<arcVars, spinVars, chanVars, basicVars, splitVars, mainVars, parkVars, wpVars, ordVars, ptrVars, lzVars>>

\* if !B.load(SeqCst) / if !A.load(SeqCst): seqcst_ordering.rs:44, 53. All
\* SeqCst operations are in one total order: the load returns the latest
\* value stored.
SqLoad(th) ==
  /\ sq_pc[th] = "load"
  /\ sq_pc' = [sq_pc EXCEPT ![th] = IF SqOther(th) THEN "done" ELSE "push"]
  /\ UNCHANGED <<A, B, S, sq_main, sq_calls, sq_race, sq_out>>
  /\ UNCHANGED <<arcVars, spinVars, chanVars, basicVars, splitVars, mainVars, parkVars, wpVars, ordVars, ptrVars, lzVars>>

\* unsafe { S.push('!') }, entering: seqcst_ordering.rs:45-47, 54-56. S is
\* a static mut without synchronisation: a push that overlaps another one is
\* a data race.
SqPushBegin(th) ==
  /\ sq_pc[th] = "push"
  /\ sq_race' = (sq_race \/ \E o \in SqThreads : o # th /\ sq_pc[o] = "pushing")
  /\ sq_pc' = [sq_pc EXCEPT ![th] = "pushing"]
  /\ UNCHANGED <<A, B, S, sq_main, sq_calls, sq_out>>
  /\ UNCHANGED <<arcVars, spinVars, chanVars, basicVars, splitVars, mainVars, parkVars, wpVars, ordVars, ptrVars, lzVars>>

\* unsafe { S.push('!') }, the character is in S. After a data race S may
\* hold anything.
SqPushEnd(th) ==
  /\ sq_pc[th] = "pushing"
  /\ IF sq_race
       THEN S' \in {<<>>, <<"!">>, <<"!", "!">>}
       ELSE S' = Append(S, "!")
  /\ sq_pc' = [sq_pc EXCEPT ![th] = "done"]
  /\ UNCHANGED <<A, B, sq_main, sq_calls, sq_race, sq_out>>
  /\ UNCHANGED <<arcVars, spinVars, chanVars, basicVars, splitVars, mainVars, parkVars, wpVars, ordVars, ptrVars, lzVars>>

\* a.join().unwrap(): seqcst_ordering.rs:60
SqJoinA ==
  /\ sq_main = "join_a" /\ sq_pc["a"] = "done"
  /\ sq_pc' = [sq_pc EXCEPT !["a"] = "none"]
  /\ sq_main' = "join_b"
  /\ UNCHANGED <<A, B, S, sq_calls, sq_race, sq_out>>
  /\ UNCHANGED <<arcVars, spinVars, chanVars, basicVars, splitVars, mainVars, parkVars, wpVars, ordVars, ptrVars, lzVars>>

\* b.join().unwrap(): seqcst_ordering.rs:61
SqJoinB ==
  /\ sq_main = "join_b" /\ sq_pc["b"] = "done"
  /\ sq_pc' = [sq_pc EXCEPT !["b"] = "none"]
  /\ sq_main' = "print"
  /\ UNCHANGED <<A, B, S, sq_calls, sq_race, sq_out>>
  /\ UNCHANGED <<arcVars, spinVars, chanVars, basicVars, splitVars, mainVars, parkVars, wpVars, ordVars, ptrVars, lzVars>>

\* println!("S is {:?}", unsafe { &S }): seqcst_ordering.rs:63
SqPrint ==
  /\ sq_main = "print"
  /\ sq_out' = Append(sq_out, S)
  /\ sq_calls' = sq_calls + 1
  /\ sq_main' = "idle"
  /\ UNCHANGED <<A, B, S, sq_pc, sq_race>>
  /\ UNCHANGED <<arcVars, spinVars, chanVars, basicVars, splitVars, mainVars, parkVars, wpVars, ordVars, ptrVars, lzVars>>

NextSq ==
  \/ SqSpawnA
  \/ SqSpawnB
  \/ \E th \in SqThreads :
       \/ SqStore(th)
       \/ SqLoad(th)
       \/ SqPushBegin(th)
       \/ SqPushEnd(th)
  \/ SqJoinA
  \/ SqJoinB
  \/ SqPrint

SpecSq == Init /\ [][NextSq]_vars

\* the spawned threads run to their end and the joins return
SpecSqFair == SpecSq /\ WF_vars(NextSq)

\* the values of S printed so far
SqPrinted == {sq_out[i] : i \in 1..Len(sq_out)}

C37_WitnessEmpty ==
  /\ sq_calls = 1 /\ sq_out = << <<>> >> /\ A /\ B

\* ===================================================================
\* lazy_init (section_2/lazy_init.rs)
\* ===================================================================

\* fn calculate_value() -> u64: lazy_init.rs:59-61
calculate_value == 10

\* let loader = VALUE.load(Relaxed); if loader == 0: lazy_init.rs:30-32
LzLoad(t) ==
  /\ lz_pc[t] = "idle"
  /\ lz_loader' = [lz_loader EXCEPT ![t] = VALUE]
  /\ lz_calc' = [lz_calc EXCEPT ![t] = 0]
  /\ lz_pc' = [lz_pc EXCEPT ![t] = IF VALUE = 0 THEN "calc" ELSE "ret"]
  /\ UNCHANGED <<VALUE, lz_ret>>
  /\ UNCHANGED <<arcVars, spinVars, chanVars, basicVars, splitVars, mainVars, parkVars, wpVars, ordVars, ptrVars, sqVars>>

\* let calc_value = calculate_value(): lazy_init.rs:33
LzCalc(t) ==
  /\ lz_pc[t] = "calc"
  /\ lz_calc' = [lz_calc EXCEPT ![t] = calculate_value]
  /\ lz_pc' = [lz_pc EXCEPT ![t] = "store"]
  /\ UNCHANGED <<VALUE, lz_loader, lz_ret>>
  /\ UNCHANGED <<arcVars, spinVars, chanVars, basicVars, splitVars, mainVars, parkVars, wpVars, ordVars, ptrVars, sqVars>>

\* VALUE.store(calc_value, Relaxed): lazy_init.rs:34
LzStore(t) ==
  /\ lz_pc[t] = "store"
  /\ VALUE' = lz_calc[t]
  /\ lz_pc' = [lz_pc EXCEPT ![t] = "ret"]
  /\ UNCHANGED <<lz_loader, lz_calc, lz_ret>>
  /\ UNCHANGED <<arcVars, spinVars, chanVars, basicVars, splitVars, mainVars, parkVars, wpVars, ordVars, ptrVars, sqVars>>

\* return loader: lazy_init.rs:37
LzReturn(t) ==
  /\ lz_pc[t] = "ret"
  /\ lz_ret' = [lz_ret EXCEPT ![t] = lz_loader[t]]
  /\ lz_pc' = [lz_pc EXCEPT ![t] = "idle"]
  /\ UNCHANGED <<VALUE, lz_loader, lz_calc>>
  /\ UNCHANGED <<arcVars, spinVars, chanVars, basicVars, splitVars, mainVars, parkVars, wpVars, ordVars, ptrVars, sqVars>>

NextLz ==
  \E t \in LazyThreads :
    \/ LzLoad(t)
    \/ LzCalc(t)
    \/ LzStore(t)
    \/ LzReturn(t)

SpecLz == Init /\ [][NextLz]_vars

\* C38: every call of lazy_init returns the value of calculate_value, never
\* the placeholder 0, and every value stored in VALUE is that value.
C38_ReturnsInitialisedValue ==
  /\ [](\A t \in LazyThreads : lz_ret[t] # -1 => lz_ret[t] = calculate_value)
  /\ [](VALUE \in {0, calculate_value})

\* the part of C38 about the racing threads: each may compute, and all store
\* the same value
C38_AllStoreTheSameValue ==
  /\ [](VALUE \in {0, calculate_value})
  /\ [][\A t \in LazyThreads : LzStore(t) => VALUE' = calculate_value]_vars

\* three racing calls all computed and stored 10, and all three returned 0
C38_Witness ==
  /\ VALUE = calculate_value
  /\ \A t \in LazyThreads : lz_pc[t] = "idle" /\ lz_calc[t] = calculate_value /\ lz_ret[t] = 0

====
